---- MODULE Spec2Model ----
(***************************************************************************)
(* A model of the online-cinema backend: the relational tables the route   *)
(* handlers read and write, and one action per handler (Spec) or per       *)
(* database round trip of a handler (SpecConc).                            *)
(***************************************************************************)
EXTENDS Integers, Sequences, FiniteSets, TLC

(***************************************************************************)
(* Bounds of the exploration.                                              *)
(***************************************************************************)
\* orders are never deleted: the number of rows of the orders table
MaxOrders == 2
\* catalog prices, in minor units, range over 1..MaxPrice
MaxPrice == 2
\* the clock stops after MaxNow days
MaxNow == 2
\* refresh tokens are only deleted by logout: the number of rows stored at a time
MaxSessions == 2
\* payments are never deleted: the number of rows of the payments table
MaxPayments == 2
\* the number of rows of the movies table that create_movie fills
MaxMovies == 2

(***************************************************************************)
(* Input domains.                                                          *)
(***************************************************************************)
\* ids of the users that exist in the shop scenarios
UserIds == {1, 2}
\* a bearer token that get_current_user rejects: it names no user
BadToken == 0
\* ids of the movies of the catalog, and an id no movie has
MovieIds == {1, 2}
NoMovie == Cardinality(MovieIds) + 1
\* the emails that requests name; the stored users of the scenarios hold them in turn
Emails == {"a@x.com", "b@x.com"}
SeedEmail(u) == IF u = 1 THEN "a@x.com" ELSE "b@x.com"
\* the names, years and runtimes that create_movie requests name
MovieNames == {"film", "sequel"}
MovieYears == {2000, 2001}
MovieTimes == {90, 120}
\* two passwords that pass validate_password_strength
Passwords == {"Secr3t!1", "N3wpass!2"}
SeedPassword == "Secr3t!1"
\* the two connections whose requests SpecConc interleaves
Clients == {"c1", "c2"}

\* StatusEnum of models/order.py
PENDING == "pending"
PAID == "paid"
CANCELED == "canceled"

VARIABLES
    users,           \* users table: id -> [email, password, is_active, group]
    movies,          \* movies table: id -> [name, year, time, price]
    carts,           \* carts table: set of [id, user_id]
    cartItems,       \* cart_items table: set of [id, cart_id, movie_id]
    orders,          \* orders table: sequence, orders[id] = [user_id, status, total_amount]
    orderItems,      \* order_items table: set of [id, order_id, movie_id, price_at_order]
    catalogAtOrder,  \* history: catalogAtOrder[id][m] = the catalog price of m when order id was inserted
    inflight,        \* SpecConc: client -> the request it is in the middle of
    last,            \* the response of the request that completed last
    userGroups,      \* user_groups table: the set of the stored groups' names
    activationTokens,     \* activation_tokens table: set of [user_id, token, expires_at]
    passwordResetTokens,  \* password_reset_tokens table: set of [user_id, token, expires_at]
    refreshTokens,   \* refresh_tokens table: set of [user_id, token]
    now,             \* datetime.now(timezone.utc), in days
    payments,        \* payments table: sequence, payments[id] =
                     \*   [user_id, order_id, amount, external_payment_id, status]
    paymentItems,    \* payment_items table: set of [payment_id, order_item_id, price_at_payment]
    stripe           \* the gateway: [api_key, intents], intents = the number of intents it issued

vars == <<users, movies, carts, cartItems, orders, orderItems, catalogAtOrder,
          inflight, last, userGroups, activationTokens, passwordResetTokens,
          refreshTokens, now, payments, paymentItems, stripe>>

\* what the handlers of routes/accounts.py read and write
identity == <<users, userGroups, activationTokens, passwordResetTokens, refreshTokens, now>>

\* what the handlers of routes/payments.py write, and the gateway
paymentTables == <<payments, paymentItems, stripe>>

\* what the handlers of routes/cart.py and routes/order.py read and write
shopTables == <<movies, carts, cartItems, orders, orderItems, catalogAtOrder>>

(***************************************************************************)
(* Helpers over tables.                                                    *)
(***************************************************************************)
Min(S) == CHOOSE x \in S : \A y \in S : x <= y

\* Autoincrement keys are opaque: the handlers compare them for equality and
\* take rows in key order. A new row's key is named after the row's slot (the
\* user of a cart, the cart and movie of a cart item) and the lowest version
\* that no stored row and no request in flight holds, so that a key never
\* comes back while something still refers to it.
KeySpan == Cardinality(Clients) + 2

FreshKey(slot, used) ==
    slot * KeySpan + Min({v \in 0..Cardinality(used) : (slot * KeySpan + v) \notin used})

\* Query.first() / scalar_one_or_none() on rows that carry an id
First(rows) == CHOOSE r \in rows : \A q \in rows : r.id <= q.id

Response(op, user, arg, code) == [op |-> op, user |-> user, arg |-> arg, code |-> code]

\* wrote: the request has committed a write
Idle == [op |-> "idle", pc |-> "idle", user |-> 0, movie |-> 0, cart |-> 0, snap |-> {},
         wrote |-> FALSE]

\* ids of cart items that requests in flight still refer to
HeldItemIds == UNION {{s.id : s \in inflight[c].snap} : c \in Clients}

\* ids of carts that requests in flight still refer to
HeldCartIds == {inflight[c].cart : c \in Clients} \ {0}

(***************************************************************************)
(* security/auth_dependencies.py                                           *)
(***************************************************************************)
\* get_current_user: the access token decodes to the id of a stored user
Authenticated(tok) == tok \in DOMAIN users

(***************************************************************************)
(* models/cart.py: the tables' unique constraints, checked at commit       *)
(***************************************************************************)
\* carts.user_id is unique
UniqueCartUser(tbl, u) == ~ \E c \in tbl : c.user_id = u

\* as if the table had no unique_cart_movie constraint
UniqueCartMovie_Missing(tbl, cid, m) == TRUE

\* unique_cart_movie: (cart_id, movie_id) is unique
UniqueCartMovie(tbl, cid, m) == ~ \E i \in tbl : i.cart_id = cid /\ i.movie_id = m

CartRows(u) == {c \in carts : c.user_id = u}

\* CartModel.items
ItemsOf(tbl, cid) == {i \in tbl : i.cart_id = cid}

NewCart(u) == [id |-> FreshKey(u, {c.id : c \in carts} \cup HeldCartIds), user_id |-> u]

NewCartItem(cid, m) ==
    [id |-> FreshKey(cid * (NoMovie + 1) + m, {i.id : i \in cartItems} \cup HeldItemIds),
     cart_id |-> cid, movie_id |-> m]

(***************************************************************************)
(* routes/cart.py                                                          *)
(***************************************************************************)
\* as if the statement left out the orders that are canceled
Purchased_NotCanceled(u, m) ==
    \E i \in orderItems : /\ i.movie_id = m
                          /\ orders[i.order_id].user_id = u
                          /\ orders[i.order_id].status # "canceled"

\* stmt_purchase: an order item of any order of the user names the movie
Purchased(u, m) ==
    \E i \in orderItems : i.movie_id = m /\ orders[i.order_id].user_id = u

\* as if the purchase check of lines 95-107 were missing
AddItemChecks_NoPurchaseCheck(cid, u, m) ==
    IF \E i \in ItemsOf(cartItems, cid) : i.movie_id = m THEN 409 ELSE 201

\* lines 89-107 of add_cart_item: the two checks that precede the insert
AddItemChecks(cid, u, m) ==
    IF \E i \in ItemsOf(cartItems, cid) : i.movie_id = m THEN 409
    ELSE IF Purchased(u, m) THEN 400
    ELSE 201

\* the whole handler, run without interruption
add_cart_item(tok, m) ==
    /\ UNCHANGED <<identity, paymentTables, movies, orders, orderItems, catalogAtOrder, inflight>>
    /\ IF ~Authenticated(tok)
       THEN /\ last' = Response("add_cart_item", tok, m, 401)
            /\ UNCHANGED <<carts, cartItems>>
       ELSE IF m \notin DOMAIN movies
       THEN /\ last' = Response("add_cart_item", tok, m, 404)
            /\ UNCHANGED <<carts, cartItems>>
       ELSE LET created == CartRows(tok) = {}
                cart == IF created THEN NewCart(tok) ELSE First(CartRows(tok))
                code == AddItemChecks(cart.id, tok, m)
            IN  /\ carts' = IF created THEN carts \cup {cart} ELSE carts
                /\ IF code # 201
                   THEN /\ last' = Response("add_cart_item", tok, m, code)
                        /\ UNCHANGED cartItems
                   ELSE IF ~UniqueCartMovie(cartItems, cart.id, m)
                   THEN /\ last' = Response("add_cart_item", tok, m, 500)
                        /\ UNCHANGED cartItems
                   ELSE /\ last' = Response("add_cart_item", tok, m, 201)
                        /\ cartItems' = cartItems \cup {NewCartItem(cart.id, m)}

\* lines 132-153 of delete_movie_from_cart: the row to delete, or the error
RemoveItemLookup(u, m) ==
    IF CartRows(u) = {} THEN {}
    ELSE {i \in ItemsOf(cartItems, First(CartRows(u)).id) : i.movie_id = m}

delete_movie_from_cart(tok, m) ==
    /\ UNCHANGED <<identity, paymentTables, movies, carts, orders, orderItems, catalogAtOrder, inflight>>
    /\ IF ~Authenticated(tok)
       THEN /\ last' = Response("delete_movie_from_cart", tok, m, 401)
            /\ UNCHANGED cartItems
       ELSE IF RemoveItemLookup(tok, m) = {}
       THEN /\ last' = Response("delete_movie_from_cart", tok, m, 404)
            /\ UNCHANGED cartItems
       ELSE /\ last' = Response("delete_movie_from_cart", tok, m, 204)
            /\ cartItems' = cartItems \ {First(RemoveItemLookup(tok, m))}

(***************************************************************************)
(* routes/order.py                                                         *)
(***************************************************************************)
OrderExists(oid) == oid \in DOMAIN orders

\* the order items of the user's orders of one status that name the movie
InOrderWithStatus(u, m, st) ==
    \E i \in orderItems :
        /\ i.movie_id = m
        /\ orders[i.order_id].user_id = u
        /\ orders[i.order_id].status = st

\* as if the loop had no stmt_pending check
RECURSIVE CheckItems_NoPendingCheck(_, _)
CheckItems_NoPendingCheck(u, items) ==
    IF items = {} THEN 201
    ELSE LET item == First(items)
         IN  IF item.movie_id \notin DOMAIN movies THEN 404
             ELSE IF InOrderWithStatus(u, item.movie_id, PAID) THEN 400
             ELSE CheckItems_NoPendingCheck(u, items \ {item})

\* the loop of lines 42-82 over the cart's items, in the order of their ids
RECURSIVE CheckItems(_, _)
CheckItems(u, items) ==
    IF items = {} THEN 201
    ELSE LET item == First(items)
         IN  IF item.movie_id \notin DOMAIN movies THEN 404
             ELSE IF InOrderWithStatus(u, item.movie_id, PAID) THEN 400
             ELSE IF InOrderWithStatus(u, item.movie_id, PENDING) THEN 400
             ELSE CheckItems(u, items \ {item})

\* lines 29-82 of create_order: what the SELECTs decide
CreateOrderCheck(u) ==
    IF CartRows(u) = {} \/ ItemsOf(cartItems, First(CartRows(u)).id) = {} THEN 404
    ELSE CheckItems(u, ItemsOf(cartItems, First(CartRows(u)).id))

\* cart_items = list(cart.items), each with its movie as the session loaded it
CartSnapshot(u) ==
    {[id |-> i.id, movie_id |-> i.movie_id, price |-> movies[i.movie_id].price] :
        i \in ItemsOf(cartItems, First(CartRows(u)).id)}

\* as if the prices were summed as a set: equal prices counted once
RECURSIVE SumSet(_)
SumSet(S) == IF S = {} THEN 0 ELSE LET x == Min(S) IN x + SumSet(S \ {x})

TotalAmount_DistinctPrices(snap) == SumSet({s.price : s \in snap})

\* sum(item.movie.price for item in cart.items)
RECURSIVE TotalAmount(_)
TotalAmount(snap) ==
    IF snap = {} THEN 0
    ELSE LET item == First(snap) IN item.price + TotalAmount(snap \ {item})

\* lines 94-99: one OrderItemModel per snapshot item, keys in insertion order
RECURSIVE AddOrderItems(_, _, _)
AddOrderItems(tbl, oid, snap) ==
    IF snap = {} THEN tbl
    ELSE LET item == First(snap)
             row == [id |-> Cardinality(tbl) + 1, order_id |-> oid,
                     movie_id |-> item.movie_id, price_at_order |-> item.price]
         IN  AddOrderItems(tbl \cup {row}, oid, snap \ {item})

\* as if only the first snapshot item were deleted
DeleteCartItems_FirstOnly(tbl, snap) ==
    IF snap = {} THEN tbl ELSE {i \in tbl : i.id # First(snap).id}

\* lines 101-102: DELETE of each snapshot item by primary key
DeleteCartItems(tbl, snap) == {i \in tbl : i.id \notin {s.id : s \in snap}}

\* lines 84-102: the transaction that moves the snapshot into a new order
CreateOrderCommit(u, snap) ==
    /\ orders' = Append(orders, [user_id |-> u, status |-> PENDING,
                                 total_amount |-> TotalAmount(snap)])
    /\ orderItems' = AddOrderItems(orderItems, Len(orders) + 1, snap)
    /\ cartItems' = DeleteCartItems(cartItems, snap)
    /\ catalogAtOrder' = Append(catalogAtOrder,
            [m \in {s.movie_id : s \in snap} |-> movies[m].price])

create_order(tok) ==
    /\ UNCHANGED <<identity, paymentTables, movies, carts, inflight>>
    /\ IF ~Authenticated(tok)
       THEN /\ last' = Response("create_order", tok, 0, 401)
            /\ UNCHANGED <<cartItems, orders, orderItems, catalogAtOrder>>
       ELSE IF CreateOrderCheck(tok) # 201
       THEN /\ last' = Response("create_order", tok, 0, CreateOrderCheck(tok))
            /\ UNCHANGED <<cartItems, orders, orderItems, catalogAtOrder>>
       ELSE /\ Len(orders) < MaxOrders
            /\ CreateOrderCommit(tok, CartSnapshot(tok))
            /\ last' = Response("create_order", tok, Len(orders) + 1, 201)

\* as if stmt_order did not filter on the caller
PayOrderCheck_AnyOwner(u, oid) ==
    IF ~OrderExists(oid) THEN 404
    ELSE IF orders[oid].status = PAID THEN 400
    ELSE 200

\* lines 136-153 of pay_order
PayOrderCheck(u, oid) ==
    IF ~(OrderExists(oid) /\ orders[oid].user_id = u) THEN 404
    ELSE IF orders[oid].status = PAID THEN 400
    ELSE 200

pay_order(tok, oid) ==
    /\ UNCHANGED <<identity, paymentTables, movies, carts, cartItems, orderItems, catalogAtOrder, inflight>>
    /\ IF ~Authenticated(tok)
       THEN /\ last' = Response("pay_order", tok, oid, 401)
            /\ UNCHANGED orders
       ELSE IF PayOrderCheck(tok, oid) # 200
       THEN /\ last' = Response("pay_order", tok, oid, PayOrderCheck(tok, oid))
            /\ UNCHANGED orders
       ELSE /\ orders' = [orders EXCEPT ![oid].status = PAID]
            /\ last' = Response("pay_order", tok, oid, 200)

\* as if the guard on paid orders were missing
CancelOrderCheck_NoPaidGuard(u, oid) ==
    IF ~(OrderExists(oid) /\ orders[oid].user_id = u) THEN 404
    ELSE IF orders[oid].status = CANCELED THEN 400
    ELSE 200

\* lines 173-196 of cancel_order
CancelOrderCheck(u, oid) ==
    IF ~(OrderExists(oid) /\ orders[oid].user_id = u) THEN 404
    ELSE IF orders[oid].status = CANCELED THEN 400
    ELSE IF orders[oid].status = PAID THEN 400
    ELSE 200

cancel_order(tok, oid) ==
    /\ UNCHANGED <<identity, paymentTables, movies, carts, cartItems, orderItems, catalogAtOrder, inflight>>
    /\ IF ~Authenticated(tok)
       THEN /\ last' = Response("cancel_order", tok, oid, 401)
            /\ UNCHANGED orders
       ELSE IF CancelOrderCheck(tok, oid) # 200
       THEN /\ last' = Response("cancel_order", tok, oid, CancelOrderCheck(tok, oid))
            /\ UNCHANGED orders
       ELSE /\ orders' = [orders EXCEPT ![oid].status = CANCELED]
            /\ last' = Response("cancel_order", tok, oid, 200)

(***************************************************************************)
(* models/accounts.py and the request schemas of schemas/accounts.py       *)
(***************************************************************************)
\* UserGroupEnum
USER == "user"
MODERATOR == "moderator"
ADMIN == "admin"
UserGroupEnum == {USER, MODERATOR, ADMIN}

\* UserModel.set_password stores a hash; verify_password compares against it
hash_password(raw) == <<"hashed", raw>>
verify_password(raw, hashed) == hash_password(raw) = hashed

\* generate_secure_token: a value that no stored token of the table has
generate_secure_token(u, tbl) == FreshKey(u, {t.token : t \in tbl})

\* TokenBaseModel.expires_at: the default lifetime of a token, in days
TokenDays == 1

\* the fields a request body keeps after validation by its schema
PasswordResetCompleteRequestSchema(email, token, password) ==
    [token |-> token, email |-> email]

TokenRefreshRequestSchema(refresh_token) == [token |-> refresh_token]

\* jwt_manager.decode_refresh_token: the user id of the payload, 0 when the
\* token does not verify
decode_refresh_token(token) == IF token = BadToken THEN 0 ELSE token \div KeySpan

UserByEmail(email) == {u \in DOMAIN users : users[u].email = email}

TokensOf(tbl, u) == {t \in tbl : t.user_id = u}

(***************************************************************************)
(* routes/accounts.py                                                      *)
(***************************************************************************)
register_user(email, password) ==
    /\ UNCHANGED <<shopTables, paymentTables, inflight, userGroups,
                   passwordResetTokens, refreshTokens, now>>
    /\ IF UserByEmail(email) # {}
       THEN /\ last' = Response("register_user", 0, email, 409)
            /\ UNCHANGED <<users, activationTokens>>
       ELSE IF USER \notin userGroups
       THEN /\ last' = Response("register_user", 0, email, 500)
            /\ UNCHANGED <<users, activationTokens>>
       ELSE LET uid == Cardinality(DOMAIN users) + 1
            IN  /\ users' = [u \in DOMAIN users \cup {uid} |->
                                IF u = uid
                                THEN [email |-> email, password |-> hash_password(password),
                                      is_active |-> FALSE, group |-> USER]
                                ELSE users[u]]
                /\ activationTokens' = activationTokens \cup
                        {[user_id |-> uid,
                          token |-> generate_secure_token(uid, activationTokens),
                          expires_at |-> now + TokenDays]}
                /\ last' = Response("register_user", uid, email, 201)

\* as if the statement did not compare the token's value
ActivationLookup_AnyToken(email, token) ==
    {t \in activationTokens : users[t.user_id].email = email}

\* as if the statement did not join the user of that email
ActivationLookup_AnyUser(email, token) ==
    {t \in activationTokens : t.token = token}

\* lines 109-119: the activation token of that value of the user of that email
ActivationLookup(email, token) ==
    {t \in activationTokens : users[t.user_id].email = email /\ t.token = token}

\* the request body as the responses record it
UserActivationRequestSchema(email, token) == [email |-> email, token |-> token]

activate_account(email, token) ==
    /\ UNCHANGED <<shopTables, paymentTables, inflight, userGroups,
                   passwordResetTokens, refreshTokens, now>>
    /\ LET found == ActivationLookup(email, token)
           token_record == CHOOSE t \in found : TRUE
       IN  IF found = {}
           THEN /\ last' = Response("activate_account", 0,
                                    UserActivationRequestSchema(email, token), 400)
                /\ UNCHANGED <<users, activationTokens>>
           ELSE IF token_record.expires_at < now
           THEN /\ activationTokens' = activationTokens \ {token_record}
                /\ last' = Response("activate_account", token_record.user_id,
                                    UserActivationRequestSchema(email, token), 400)
                /\ UNCHANGED users
           ELSE IF users[token_record.user_id].is_active
           THEN /\ last' = Response("activate_account", token_record.user_id,
                                    UserActivationRequestSchema(email, token), 400)
                /\ UNCHANGED <<users, activationTokens>>
           ELSE /\ users' = [users EXCEPT ![token_record.user_id].is_active = TRUE]
                /\ activationTokens' = activationTokens \ {token_record}
                /\ last' = Response("activate_account", token_record.user_id,
                                    UserActivationRequestSchema(email, token), 200)

\* settings.LOGIN_TIME_DAYS: the lifetime of a refresh token, in days
LoginTimeDays == 1

\* the request body and the refresh token of the response, 0 when none is issued
LoginExchange(email, password, refresh_token) ==
    [email |-> email, password |-> password, refresh_token |-> refresh_token]

\* as if the account's activation were not looked at
LoginCheck_NoActiveCheck(email, password) ==
    IF UserByEmail(email) = {} THEN 401
    ELSE IF ~verify_password(password, users[Min(UserByEmail(email))].password) THEN 401
    ELSE 200

\* lines 157-171 of login_user
LoginCheck(email, password) ==
    IF UserByEmail(email) = {} THEN 401
    ELSE LET user == users[Min(UserByEmail(email))]
         IN  IF ~verify_password(password, user.password) THEN 401
             ELSE IF ~user.is_active THEN 403
             ELSE 200

login_user(email, password) ==
    /\ UNCHANGED <<shopTables, paymentTables, inflight, users, userGroups,
                   activationTokens, passwordResetTokens, now>>
    /\ IF LoginCheck(email, password) # 200
       THEN /\ last' = Response("login_user", 0, LoginExchange(email, password, 0),
                                LoginCheck(email, password))
            /\ UNCHANGED refreshTokens
       ELSE LET uid == Min(UserByEmail(email))
                jwt_refresh_token == generate_secure_token(uid, refreshTokens)
            IN  /\ Cardinality(refreshTokens) < MaxSessions
                /\ refreshTokens' = refreshTokens \cup
                        {[user_id |-> uid, token |-> jwt_refresh_token,
                          expires_at |-> now + LoginTimeDays]}
                /\ last' = Response("login_user", uid,
                                    LoginExchange(email, password, jwt_refresh_token), 200)

\* as if every session of the token's user were closed
logout_user_AllSessions(refresh_token) ==
    /\ UNCHANGED <<shopTables, paymentTables, inflight, users, userGroups,
                   activationTokens, passwordResetTokens, now>>
    /\ LET found == {t \in refreshTokens : t.token = refresh_token}
       IN  IF found = {}
           THEN /\ last' = Response("logout_user", 0, refresh_token, 400)
                /\ UNCHANGED refreshTokens
           ELSE /\ refreshTokens' =
                        {t \in refreshTokens : \A f \in found : t.user_id # f.user_id}
                /\ last' = Response("logout_user", 0, refresh_token, 200)

logout_user(refresh_token) ==
    /\ UNCHANGED <<shopTables, paymentTables, inflight, users, userGroups,
                   activationTokens, passwordResetTokens, now>>
    /\ LET found == {t \in refreshTokens : t.token = refresh_token}
       IN  IF found = {}
           THEN /\ last' = Response("logout_user", 0, refresh_token, 400)
                /\ UNCHANGED refreshTokens
           ELSE /\ refreshTokens' = refreshTokens \ found
                /\ last' = Response("logout_user", 0, refresh_token, 200)

change_password(tok, old_password, new_password) ==
    /\ UNCHANGED <<shopTables, paymentTables, inflight, userGroups, activationTokens,
                   passwordResetTokens, refreshTokens, now>>
    /\ IF ~Authenticated(tok)
       THEN /\ last' = Response("change_password", tok, 0, 401)
            /\ UNCHANGED users
       ELSE IF ~verify_password(old_password, users[tok].password)
       THEN /\ last' = Response("change_password", tok, 0, 400)
            /\ UNCHANGED users
       ELSE /\ users' = [users EXCEPT ![tok].password = hash_password(new_password)]
            /\ last' = Response("change_password", tok, 0, 200)

\* lines 279-304: the message of the response (the status is 200 on both paths)
ResetRequestMessage(email) ==
    IF UserByEmail(email) = {} \/ ~users[Min(UserByEmail(email))].is_active
    THEN "If you are registered, you will receive an email with instructions."
    ELSE "Password reset email sent successfully."

\* as if the user's previous reset token were left in the table
request_password_reset_token_KeepOld(email) ==
    /\ UNCHANGED <<shopTables, paymentTables, inflight, users, userGroups,
                   activationTokens, refreshTokens, now>>
    /\ last' = Response("request_password_reset_token", 0,
                        [email |-> email, message |-> ResetRequestMessage(email)], 200)
    /\ IF UserByEmail(email) = {} \/ ~users[Min(UserByEmail(email))].is_active
       THEN UNCHANGED passwordResetTokens
       ELSE LET uid == Min(UserByEmail(email))
            IN  passwordResetTokens' = passwordResetTokens \cup
                    {[user_id |-> uid,
                      token |-> generate_secure_token(uid, passwordResetTokens),
                      expires_at |-> now + TokenDays]}

request_password_reset_token(email) ==
    /\ UNCHANGED <<shopTables, paymentTables, inflight, users, userGroups,
                   activationTokens, refreshTokens, now>>
    /\ last' = Response("request_password_reset_token", 0,
                        [email |-> email, message |-> ResetRequestMessage(email)], 200)
    /\ IF UserByEmail(email) = {} \/ ~users[Min(UserByEmail(email))].is_active
       THEN UNCHANGED passwordResetTokens
       ELSE LET uid == Min(UserByEmail(email))
            IN  passwordResetTokens' =
                    (passwordResetTokens \ TokensOf(passwordResetTokens, uid)) \cup
                    {[user_id |-> uid,
                      token |-> generate_secure_token(uid, passwordResetTokens),
                      expires_at |-> now + TokenDays]}

reset_password(email, token, password) ==
    /\ UNCHANGED <<shopTables, paymentTables, inflight, userGroups, activationTokens,
                   refreshTokens, now>>
    /\ LET data == PasswordResetCompleteRequestSchema(email, token, password)
           uid == Min(UserByEmail(data.email))
           stored == TokensOf(passwordResetTokens, uid)
           token_record == CHOOSE t \in stored : TRUE
       IN  IF UserByEmail(data.email) = {} \/ ~users[uid].is_active
           THEN /\ last' = Response("reset_password", 0, token, 400)
                /\ UNCHANGED <<users, passwordResetTokens>>
           ELSE IF stored = {}
           THEN /\ last' = Response("reset_password", uid, token, 400)
                /\ UNCHANGED <<users, passwordResetTokens>>
           ELSE IF token_record.token # data.token
           THEN /\ passwordResetTokens' = passwordResetTokens \ {token_record}
                /\ last' = Response("reset_password", uid, token, 400)
                /\ UNCHANGED users
           ELSE IF token_record.expires_at < now
           THEN /\ passwordResetTokens' = passwordResetTokens \ {token_record}
                /\ last' = Response("reset_password", uid, token, 400)
                /\ UNCHANGED users
           ELSE IF "password" \notin DOMAIN data
           THEN /\ last' = Response("reset_password", uid, token, 500)
                /\ UNCHANGED <<users, passwordResetTokens>>
           ELSE /\ users' = [users EXCEPT ![uid].password = hash_password(data.password)]
                /\ passwordResetTokens' = passwordResetTokens \ {token_record}
                /\ last' = Response("reset_password", uid, token, 200)

\* no branch writes: the handler only reads the refresh token and the user
refresh_access_token(refresh_token) ==
    /\ UNCHANGED <<shopTables, paymentTables, inflight, identity>>
    /\ LET token_data == TokenRefreshRequestSchema(refresh_token)
       IN  IF "refresh_token" \notin DOMAIN token_data
           THEN last' = Response("refresh_access_token", 0, refresh_token, 500)
           ELSE IF decode_refresh_token(token_data.refresh_token) = 0
           THEN last' = Response("refresh_access_token", 0, refresh_token, 400)
           ELSE IF ~\E t \in refreshTokens : t.token = token_data.refresh_token
           THEN last' = Response("refresh_access_token", 0, refresh_token, 401)
           ELSE IF decode_refresh_token(token_data.refresh_token) \notin DOMAIN users
           THEN last' = Response("refresh_access_token", 0, refresh_token, 404)
           ELSE last' = Response("refresh_access_token",
                                 decode_refresh_token(token_data.refresh_token),
                                 refresh_token, 200)

\* admin_required, then lines 429-453 of change_user_group
ChangeGroupCheck(tok, email, new_group) ==
    IF ~Authenticated(tok) THEN 401
    ELSE IF users[tok].group # ADMIN THEN 403
    ELSE IF UserByEmail(email) = {} THEN 404
    ELSE IF new_group \notin userGroups THEN 404
    ELSE IF users[Min(UserByEmail(email))].group = new_group THEN 400
    ELSE 200

change_user_group(tok, email, new_group) ==
    /\ UNCHANGED <<shopTables, paymentTables, inflight, userGroups, activationTokens,
                   passwordResetTokens, refreshTokens, now>>
    /\ last' = Response("change_user_group", tok, email, ChangeGroupCheck(tok, email, new_group))
    /\ IF ChangeGroupCheck(tok, email, new_group) # 200
       THEN UNCHANGED users
       ELSE users' = [users EXCEPT ![Min(UserByEmail(email))].group = new_group]

(***************************************************************************)
(* security/auth_dependencies.py: the role guards. The group is read from  *)
(* the user that get_current_user selects for the request.                 *)
(***************************************************************************)
\* as if the guard admitted every authenticated user
AdminGuard_AnyGroup(tok) ==
    IF ~Authenticated(tok) THEN 401 ELSE 200

\* admin_required, with the 401 of get_current_user
AdminGuard(tok) ==
    IF ~Authenticated(tok) THEN 401
    ELSE IF users[tok].group # ADMIN THEN 403
    ELSE 200

\* moderator_required, with the 401 of get_current_user
ModeratorGuard(tok) ==
    IF ~Authenticated(tok) THEN 401
    ELSE IF users[tok].group \notin {MODERATOR, ADMIN} THEN 403
    ELSE 200

\* a request to a route that depends on admin_required, up to the guard
admin_required(tok) ==
    /\ last' = Response("admin_required", tok, 0, AdminGuard(tok))
    /\ UNCHANGED <<shopTables, paymentTables, inflight, identity>>

\* a request to a route that depends on moderator_required, up to the guard
moderator_required(tok) ==
    /\ last' = Response("moderator_required", tok, 0, ModeratorGuard(tok))
    /\ UNCHANGED <<shopTables, paymentTables, inflight, identity>>

\* as if a token that has not expired did not hold the request back
ResendCheck_NoExpiryCheck(email) ==
    IF UserByEmail(email) = {} THEN 404
    ELSE IF users[Min(UserByEmail(email))].is_active THEN 400
    ELSE 200

\* POST /accounts/resend-activation/ as tests/test_accounts.py exercises it:
\* 404 for an unknown email, 400 for an active user, 400 while the user's
\* activation token has not expired
ResendCheck(email) ==
    IF UserByEmail(email) = {} THEN 404
    ELSE IF users[Min(UserByEmail(email))].is_active THEN 400
    ELSE IF \E t \in TokensOf(activationTokens, Min(UserByEmail(email))) :
                ~(t.expires_at < now) THEN 400
    ELSE 200

\* else the user's old token is replaced by a fresh one
resend_activation(email) ==
    /\ UNCHANGED <<shopTables, paymentTables, inflight, users, userGroups,
                   passwordResetTokens, refreshTokens, now>>
    /\ IF ResendCheck(email) # 200
       THEN /\ last' = Response("resend_activation", 0, email, ResendCheck(email))
            /\ UNCHANGED activationTokens
       ELSE LET uid == Min(UserByEmail(email))
            IN  /\ activationTokens' =
                        (activationTokens \ TokensOf(activationTokens, uid)) \cup
                        {[user_id |-> uid,
                          token |-> generate_secure_token(uid, activationTokens),
                          expires_at |-> now + TokenDays]}
                /\ last' = Response("resend_activation", uid, email, 200)

(***************************************************************************)
(* celery_app/tasks.py                                                     *)
(***************************************************************************)
\* DELETE ... WHERE expires_at < now_utc
Unexpired(tbl) == {t \in tbl : ~(t.expires_at < now)}

\* the daily task: the expired rows of the three token tables are deleted
delete_expired_token_task ==
    /\ refreshTokens' = Unexpired(refreshTokens)
    /\ activationTokens' = Unexpired(activationTokens)
    /\ passwordResetTokens' = Unexpired(passwordResetTokens)
    /\ last' = Response("delete_expired_token_task", 0, 0, 0)
    /\ UNCHANGED <<shopTables, paymentTables, inflight, users, userGroups, now>>

\* a day passes
Tick ==
    /\ now < MaxNow
    /\ now' = now + 1
    /\ UNCHANGED <<shopTables, paymentTables, inflight, last, users, userGroups,
                   activationTokens, passwordResetTokens, refreshTokens>>

(***************************************************************************)
(* routes/payments.py                                                      *)
(***************************************************************************)
\* the StatusEnum that routes/payments.py imports: the one of models/order.py
StatusEnum == [PENDING |-> PENDING, PAID |-> PAID, CANCELED |-> CANCELED]

\* the StatusEnum of models/payments.py, which the payments.status column has
PaymentStatusEnum ==
    [SUCCESSFUL |-> "successful", CANCELED |-> "canceled", REFUNDED |-> "refunded"]

\* what stripe.PaymentIntent.create does: an intent, or one of its two errors
GatewayOutcomes == {"intent", "InvalidRequestError", "StripeError"}

\* the event types that stripe_webhook tells apart, and one it ignores
EventTypes == {"payment_intent.succeeded", "payment_intent.payment_failed",
               "charge.refunded", "charge.captured"}

\* as if the gateway's key were looked at before the order
CreatePaymentCheck_KeyFirst(tok, oid, outcome) ==
    IF ~Authenticated(tok) THEN 401
    ELSE IF UserByEmail(users[tok].email) = {} THEN 404
    ELSE IF ~stripe.api_key THEN 503
    ELSE IF ~(OrderExists(oid) /\ orders[oid].user_id = tok) THEN 404
    ELSE IF orders[oid].status = StatusEnum.PAID THEN 400
    ELSE IF outcome = "InvalidRequestError" THEN 400
    ELSE IF outcome = "StripeError" THEN 502
    ELSE 201

\* lines 47-103 of create_payments: the checks that precede the insert
CreatePaymentCheck(tok, oid, outcome) ==
    IF ~Authenticated(tok) THEN 401
    ELSE IF UserByEmail(users[tok].email) = {} THEN 404
    ELSE IF ~(OrderExists(oid) /\ orders[oid].user_id = tok) THEN 404
    ELSE IF orders[oid].status = StatusEnum.PAID THEN 400
    ELSE IF ~stripe.api_key THEN 503
    ELSE IF outcome = "InvalidRequestError" THEN 400
    ELSE IF outcome = "StripeError" THEN 502
    ELSE 201

\* as if only the first item were counted
SumPrices_FirstOnly(items) == IF items = {} THEN 0 ELSE First(items).price_at_order

\* sum(item.price_at_order for item in items), items in the order of their ids
RECURSIVE SumPrices(_)
SumPrices(items) ==
    IF items = {} THEN 0
    ELSE LET item == First(items) IN item.price_at_order + SumPrices(items \ {item})

\* the request as the responses record it: the order asked for and what
\* stripe.PaymentIntent.create does if the handler comes to call it
PaymentRequest(oid, outcome) == [order_id |-> oid, gateway |-> outcome]

\* as if the payment that is stored marked its order as paid
create_payments_PayingOrder(tok, oid, outcome) ==
    /\ UNCHANGED <<movies, carts, cartItems, orderItems, catalogAtOrder, identity, inflight>>
    /\ IF CreatePaymentCheck(tok, oid, outcome) # 201
       THEN /\ last' = Response("create_payments", tok, PaymentRequest(oid, outcome),
                                CreatePaymentCheck(tok, oid, outcome))
            /\ UNCHANGED <<paymentTables, orders>>
       ELSE LET items == {i \in orderItems : i.order_id = oid}
                intent == stripe.intents + 1
                pid == Len(payments) + 1
            IN  /\ Len(payments) < MaxPayments
                /\ stripe' = [stripe EXCEPT !.intents = intent]
                /\ orders' = [orders EXCEPT ![oid].status = StatusEnum.PAID]
                /\ payments' = Append(payments,
                        [user_id |-> tok, order_id |-> oid, amount |-> SumPrices(items),
                         external_payment_id |-> intent, status |-> StatusEnum.CANCELED])
                /\ paymentItems' = paymentItems \cup
                        {[payment_id |-> pid, order_item_id |-> i.id,
                          price_at_payment |-> i.price_at_order] : i \in items}
                /\ last' = Response("create_payments", tok, PaymentRequest(oid, outcome), 201)

create_payments(tok, oid, outcome) ==
    /\ UNCHANGED <<shopTables, identity, inflight>>
    /\ IF CreatePaymentCheck(tok, oid, outcome) # 201
       THEN /\ last' = Response("create_payments", tok, PaymentRequest(oid, outcome),
                                CreatePaymentCheck(tok, oid, outcome))
            /\ UNCHANGED paymentTables
       ELSE LET items == {i \in orderItems : i.order_id = oid}
                intent == stripe.intents + 1
                pid == Len(payments) + 1
            IN  /\ Len(payments) < MaxPayments
                /\ stripe' = [stripe EXCEPT !.intents = intent]
                /\ payments' = Append(payments,
                        [user_id |-> tok, order_id |-> oid, amount |-> SumPrices(items),
                         external_payment_id |-> intent, status |-> StatusEnum.CANCELED])
                /\ paymentItems' = paymentItems \cup
                        {[payment_id |-> pid, order_item_id |-> i.id,
                          price_at_payment |-> i.price_at_order] : i \in items}
                /\ last' = Response("create_payments", tok, PaymentRequest(oid, outcome), 201)

\* as if a payment that has the status already were put back to pending
update_payment_status_Reverting(tbl, status, external_id) ==
    LET found == {p \in DOMAIN tbl : tbl[p].external_payment_id = external_id}
    IN  IF found = {} THEN tbl
        ELSE [tbl EXCEPT ![Min(found)].status =
                            IF @ = status THEN StatusEnum.PENDING ELSE status]

\* update_payment_status: the first payment of that external id gets the status
update_payment_status(tbl, status, external_id) ==
    LET found == {p \in DOMAIN tbl : tbl[p].external_payment_id = external_id}
    IN  IF found = {} THEN tbl ELSE [tbl EXCEPT ![Min(found)].status = status]

\* the member of StatusEnum that the handler names for an event type
EventStatus(type) ==
    IF type = "payment_intent.succeeded" THEN "SUCCESSFUL"
    ELSE IF type = "payment_intent.payment_failed" THEN "CANCELED"
    ELSE IF type = "charge.refunded" THEN "REFUNDED"
    ELSE "none"

\* the event as the responses record it: event["type"], event["data"]["object"]["id"]
Event(type, external_id) == [type |-> type, id |-> external_id]

\* verified: stripe.Webhook.construct_event accepts the payload and signature
stripe_webhook(type, external_id, verified) ==
    /\ UNCHANGED <<shopTables, identity, inflight, paymentItems, stripe>>
    /\ IF ~verified
       THEN /\ last' = Response("stripe_webhook", 0, Event(type, external_id), 400)
            /\ UNCHANGED payments
       ELSE IF EventStatus(type) = "none"
       THEN /\ last' = Response("stripe_webhook", 0, Event(type, external_id), 200)
            /\ UNCHANGED payments
       ELSE IF EventStatus(type) \notin DOMAIN StatusEnum
       THEN /\ last' = Response("stripe_webhook", 0, Event(type, external_id), 500)
            /\ UNCHANGED payments
       ELSE /\ payments' = update_payment_status(payments, StatusEnum[EventStatus(type)],
                                                 external_id)
            /\ last' = Response("stripe_webhook", 0, Event(type, external_id), 200)

(***************************************************************************)
(* The catalog's update of a movie (spec 4.2): the price column changes.   *)
(***************************************************************************)
update_movie(m, p) ==
    /\ m \in DOMAIN movies
    /\ movies[m].price # p
    /\ movies' = [movies EXCEPT ![m].price = p]
    /\ last' = Response("update_movie", 0, m, 200)
    /\ UNCHANGED <<identity, paymentTables, carts, cartItems, orders, orderItems,
                   catalogAtOrder, inflight>>

(***************************************************************************)
(* The shop after two users registered, activated and logged in and the    *)
(* catalog received its movies: no cart and no order yet.                  *)
(***************************************************************************)
InitialPrice(m) == ((m - 1) % MaxPrice) + 1

Init ==
    /\ users = [u \in UserIds |->
                    [email |-> SeedEmail(u), password |-> hash_password(SeedPassword),
                     is_active |-> TRUE, group |-> USER]]
    /\ userGroups = {USER}
    /\ activationTokens = {}
    /\ passwordResetTokens = {}
    /\ refreshTokens = {}
    /\ now = 0
    /\ payments = <<>>
    /\ paymentItems = {}
    /\ stripe = [api_key |-> TRUE, intents |-> 0]
    /\ movies = [m \in MovieIds |->
                    [name |-> "film", year |-> 2000 + m, time |-> 120, price |-> InitialPrice(m)]]
    /\ carts = {}
    /\ cartItems = {}
    /\ orders = <<>>
    /\ orderItems = {}
    /\ catalogAtOrder = <<>>
    /\ inflight = [c \in Clients |-> Idle]
    /\ last = Response("none", 0, 0, 0)

\* the requests explored: a rejected token is tried with one argument only,
\* since get_current_user fails before the handler reads its argument
Tokens == UserIds \cup {BadToken}
MovieArgs(tok) == IF tok = BadToken THEN {NoMovie} ELSE MovieIds \cup {NoMovie}
\* the ids of the stored orders and one id that no order has
OrderArgs(tok) == IF tok = BadToken THEN {1} ELSE 1..(Len(orders) + 1)

(***************************************************************************)
(* Spec: requests are served one at a time, each handler as one step.      *)
(***************************************************************************)
Next ==
    \/ \E tok \in Tokens : \E m \in MovieArgs(tok) : add_cart_item(tok, m)
    \/ \E tok \in Tokens : \E m \in MovieArgs(tok) : delete_movie_from_cart(tok, m)
    \/ \E tok \in Tokens : create_order(tok)
    \/ \E tok \in Tokens : \E oid \in OrderArgs(tok) : pay_order(tok, oid)
    \/ \E tok \in Tokens : \E oid \in OrderArgs(tok) : cancel_order(tok, oid)

Spec == Init /\ [][Next]_vars

(***************************************************************************)
(* SpecCatalog: one customer's requests and updates of the catalog prices. *)
(***************************************************************************)
Customer == Min(UserIds)

NextCatalog ==
    \/ \E m \in MovieIds : add_cart_item(Customer, m)
    \/ \E m \in MovieIds : delete_movie_from_cart(Customer, m)
    \/ create_order(Customer)
    \/ \E oid \in 1..Len(orders) : pay_order(Customer, oid)
    \/ \E oid \in 1..Len(orders) : cancel_order(Customer, oid)
    \/ \E m \in MovieIds, p \in 1..MaxPrice : update_movie(m, p)

SpecCatalog == Init /\ [][NextCatalog]_vars

(***************************************************************************)
(* SpecConc: two connections; a handler of routes/cart.py or of            *)
(* create_order takes one step per group of SELECTs and one per commit,    *)
(* and the other connection may run in between. Every statement sees what  *)
(* is committed when it runs (READ COMMITTED).                             *)
(***************************************************************************)
Busy(c) == inflight[c].pc # "idle"

Finish(c, response) ==
    /\ inflight' = [inflight EXCEPT ![c] = Idle]
    /\ last' = response

\* add_cart_item, lines 69-81: the movie and the caller's cart are selected
AddItemBegin(c, tok, m) ==
    /\ ~Busy(c)
    /\ UNCHANGED <<identity, paymentTables, movies, carts, cartItems, orders, orderItems, catalogAtOrder>>
    /\ IF ~Authenticated(tok)
       THEN Finish(c, Response("add_cart_item", tok, m, 401))
       ELSE IF m \notin DOMAIN movies
       THEN Finish(c, Response("add_cart_item", tok, m, 404))
       ELSE /\ inflight' = [inflight EXCEPT ![c] =
                    [op |-> "add_cart_item", user |-> tok, movie |-> m, snap |-> {}, wrote |-> FALSE,
                     pc |-> IF CartRows(tok) = {} THEN "cart_commit" ELSE "checks",
                     cart |-> IF CartRows(tok) = {} THEN 0 ELSE First(CartRows(tok)).id]]
            /\ UNCHANGED last

\* lines 84-87: the new cart row is committed, or the commit raises IntegrityError
AddItemCartCommit(c) ==
    /\ inflight[c].pc = "cart_commit"
    /\ UNCHANGED <<identity, paymentTables, movies, cartItems, orders, orderItems, catalogAtOrder>>
    /\ IF ~UniqueCartUser(carts, inflight[c].user)
       THEN /\ Finish(c, Response("add_cart_item", inflight[c].user, inflight[c].movie, 500))
            /\ UNCHANGED carts
       ELSE /\ carts' = carts \cup {NewCart(inflight[c].user)}
            /\ inflight' = [inflight EXCEPT ![c].pc = "checks",
                                            ![c].cart = NewCart(inflight[c].user).id,
                                            ![c].wrote = TRUE]
            /\ UNCHANGED last

\* lines 89-107: cart.items is loaded and the purchases are selected
AddItemCheck(c) ==
    /\ inflight[c].pc = "checks"
    /\ UNCHANGED <<identity, paymentTables, movies, carts, cartItems, orders, orderItems, catalogAtOrder>>
    /\ LET code == AddItemChecks(inflight[c].cart, inflight[c].user, inflight[c].movie)
       IN  IF code # 201
           THEN Finish(c, Response("add_cart_item", inflight[c].user, inflight[c].movie, code))
           ELSE /\ inflight' = [inflight EXCEPT ![c].pc = "item_commit"]
                /\ UNCHANGED last

\* lines 109-116: the new cart item is committed, or the commit raises IntegrityError
AddItemCommit(c) ==
    /\ inflight[c].pc = "item_commit"
    /\ UNCHANGED <<identity, paymentTables, movies, carts, orders, orderItems, catalogAtOrder>>
    /\ IF ~UniqueCartMovie(cartItems, inflight[c].cart, inflight[c].movie)
       THEN /\ Finish(c, Response("add_cart_item", inflight[c].user, inflight[c].movie, 500))
            /\ UNCHANGED cartItems
       ELSE /\ cartItems' = cartItems \cup {NewCartItem(inflight[c].cart, inflight[c].movie)}
            /\ Finish(c, Response("add_cart_item", inflight[c].user, inflight[c].movie, 201))

\* delete_movie_from_cart, lines 132-153: the cart and the item are selected
RemoveItemBegin(c, tok, m) ==
    /\ ~Busy(c)
    /\ UNCHANGED <<identity, paymentTables, movies, carts, cartItems, orders, orderItems, catalogAtOrder>>
    /\ IF ~Authenticated(tok)
       THEN Finish(c, Response("delete_movie_from_cart", tok, m, 401))
       ELSE IF RemoveItemLookup(tok, m) = {}
       THEN Finish(c, Response("delete_movie_from_cart", tok, m, 404))
       ELSE /\ inflight' = [inflight EXCEPT ![c] =
                    [op |-> "delete_movie_from_cart", pc |-> "delete", user |-> tok,
                     movie |-> m, cart |-> 0, wrote |-> FALSE,
                     snap |-> {[id |-> First(RemoveItemLookup(tok, m)).id, movie_id |-> m,
                                price |-> 0]}]]
            /\ UNCHANGED last

\* lines 155-156: DELETE by primary key; a row that is already gone is no error
RemoveItemCommit(c) ==
    /\ inflight[c].pc = "delete"
    /\ UNCHANGED <<identity, paymentTables, movies, carts, orders, orderItems, catalogAtOrder>>
    /\ cartItems' = DeleteCartItems(cartItems, inflight[c].snap)
    /\ Finish(c, Response("delete_movie_from_cart", inflight[c].user, inflight[c].movie, 204))

\* create_order requests that passed their checks and have not committed yet
Committing == {c \in Clients : inflight[c].pc = "order_commit"}

\* create_order, lines 29-82: the cart is selected and every item is checked
CreateOrderBegin(c, tok) ==
    /\ ~Busy(c)
    /\ UNCHANGED <<identity, paymentTables, movies, carts, cartItems, orders, orderItems, catalogAtOrder>>
    /\ IF ~Authenticated(tok)
       THEN Finish(c, Response("create_order", tok, 0, 401))
       ELSE IF CreateOrderCheck(tok) # 201
       THEN Finish(c, Response("create_order", tok, 0, CreateOrderCheck(tok)))
       ELSE /\ Len(orders) + Cardinality(Committing) < MaxOrders
            /\ inflight' = [inflight EXCEPT ![c] =
                    [op |-> "create_order", pc |-> "order_commit", user |-> tok,
                     movie |-> 0, cart |-> 0, wrote |-> FALSE, snap |-> CartSnapshot(tok)]]
            /\ UNCHANGED last

\* lines 84-102: the transaction is committed
CreateOrderEnd(c) ==
    /\ inflight[c].pc = "order_commit"
    /\ UNCHANGED <<identity, paymentTables, movies, carts>>
    /\ CreateOrderCommit(inflight[c].user, inflight[c].snap)
    /\ Finish(c, Response("create_order", inflight[c].user, Len(orders) + 1, 201))

\* the requests explored: the two connections carry requests of one customer
NextConc ==
    \/ \E c \in Clients, m \in MovieIds : AddItemBegin(c, Customer, m)
    \/ \E c \in Clients : AddItemCartCommit(c)
    \/ \E c \in Clients : AddItemCheck(c)
    \/ \E c \in Clients : AddItemCommit(c)
    \/ \E c \in Clients, m \in MovieIds : RemoveItemBegin(c, Customer, m)
    \/ \E c \in Clients : RemoveItemCommit(c)
    \/ \E c \in Clients : CreateOrderBegin(c, Customer)
    \/ \E c \in Clients : CreateOrderEnd(c)
    \/ \E oid \in 1..Len(orders) : pay_order(Customer, oid)
    \/ \E oid \in 1..Len(orders) : cancel_order(Customer, oid)

SpecConc == Init /\ [][NextConc]_vars

(***************************************************************************)
(* SpecAll: every router. One administrator is stored and the catalog      *)
(* holds one movie; a second user registers. The exploration takes one     *)
(* router group at a time: the account requests while the shop's tables    *)
(* are as deployed, the shop and payment requests while the accounts are   *)
(* as deployed (no handler of one group reads what the other group         *)
(* writes, but for the caller's row of the users table). The account       *)
(* handlers and the payment handlers take one step each; the cart and      *)
(* create_order handlers take the steps of SpecConc on two connections.    *)
(***************************************************************************)
SeedUsers ==
    [u \in {Customer} |->
        [email |-> SeedEmail(u), password |-> hash_password(SeedPassword),
         is_active |-> TRUE, group |-> ADMIN]]

InitAll ==
    /\ users = SeedUsers
    /\ userGroups = {USER, ADMIN}
    /\ movies = [m \in {Min(MovieIds)} |->
                    [name |-> "film", year |-> 2000 + m, time |-> 120, price |-> InitialPrice(m)]]
    /\ carts = {}
    /\ cartItems = {}
    /\ orders = <<>>
    /\ orderItems = {}
    /\ catalogAtOrder = <<>>
    /\ inflight = [c \in Clients |-> Idle]
    /\ last = Response("none", 0, 0, 0)
    /\ activationTokens = {}
    /\ passwordResetTokens = {}
    /\ refreshTokens = {}
    /\ now = 0
    /\ payments = <<>>
    /\ paymentItems = {}
    /\ stripe \in {[api_key |-> k, intents |-> 0] : k \in BOOLEAN}

\* the access tokens issued so far decode to users that are active
AccessTokens == {u \in DOMAIN users : users[u].is_active} \cup {BadToken}
\* the customer's access token and one that does not decode
ShopTokens == {Customer, BadToken}
\* the values of the stored tokens of a table and one value that none has
TokenArgs(tbl) == {t.token : t \in tbl} \cup {BadToken}
\* the movie of the catalog and an id no movie has
CatalogArgs == DOMAIN movies \cup {NoMovie}

ShopAtRest ==
    /\ carts = {}
    /\ orders = <<>>
    /\ payments = <<>>
    /\ \A c \in Clients : ~Busy(c)

AccountsAtRest ==
    /\ users = SeedUsers
    /\ activationTokens = {}
    /\ passwordResetTokens = {}
    /\ refreshTokens = {}
    /\ now = 0

\* the emails of the requests of the account's life cycle: the one that is
\* not registered at first
Applicants == Emails \ {SeedEmail(Customer)}

\* the token that the request served last presented: a client may present it
\* again, stored or not
Replayed ==
    IF last.op = "activate_account" THEN {last.arg.token}
    ELSE IF last.op \in {"logout_user", "refresh_access_token"} THEN {last.arg}
    ELSE {}

\* nobody is logged in: the login explored is the one that opens a session
FirstSession == refreshTokens = {}

\* no payment is stored: the payment explored is the first one
FirstPayment == payments = <<>>

NextAll ==
    \/ ShopAtRest /\ \E email \in Applicants : register_user(email, SeedPassword)
    \/ ShopAtRest /\ \E email \in Applicants, token \in TokenArgs(activationTokens) :
            activate_account(email, token)
    \/ ShopAtRest /\ FirstSession /\ \E email \in Applicants, password \in Passwords :
            login_user(email, password)
    \/ ShopAtRest /\ \E token \in TokenArgs(refreshTokens) : logout_user(token)
    \/ ShopAtRest /\ \E tok \in AccessTokens, old \in Passwords, new \in Passwords :
            change_password(tok, old, new)
    \/ ShopAtRest /\ \E email \in Applicants : request_password_reset_token(email)
    \/ ShopAtRest /\ \E email \in Applicants, token \in TokenArgs(passwordResetTokens) :
            reset_password(email, token, SeedPassword)
    \/ ShopAtRest /\ \E token \in TokenArgs(refreshTokens) : refresh_access_token(token)
    \/ ShopAtRest /\ \E tok \in AccessTokens, email \in Emails, group \in UserGroupEnum :
            change_user_group(tok, email, group)
    \/ ShopAtRest /\ Tick
    \/ AccountsAtRest /\ \E c \in Clients, tok \in ShopTokens, m \in CatalogArgs :
            AddItemBegin(c, tok, m)
    \/ AccountsAtRest /\ \E c \in Clients : AddItemCartCommit(c)
    \/ AccountsAtRest /\ \E c \in Clients : AddItemCheck(c)
    \/ AccountsAtRest /\ \E c \in Clients : AddItemCommit(c)
    \/ AccountsAtRest /\ \E c \in Clients, tok \in ShopTokens, m \in CatalogArgs :
            RemoveItemBegin(c, tok, m)
    \/ AccountsAtRest /\ \E c \in Clients : RemoveItemCommit(c)
    \/ AccountsAtRest /\ \E c \in Clients, tok \in ShopTokens : CreateOrderBegin(c, tok)
    \/ AccountsAtRest /\ \E c \in Clients : CreateOrderEnd(c)
    \/ AccountsAtRest /\ \E tok \in ShopTokens : \E oid \in OrderArgs(tok) :
            pay_order(tok, oid)
    \/ AccountsAtRest /\ \E tok \in ShopTokens : \E oid \in OrderArgs(tok) :
            cancel_order(tok, oid)
    \/ AccountsAtRest /\ FirstPayment /\ \E tok \in ShopTokens :
            \E oid \in OrderArgs(tok), outcome \in GatewayOutcomes :
                create_payments(tok, oid, outcome)
    \/ AccountsAtRest /\ \E type \in EventTypes, id \in 1..(stripe.intents + 1),
                             verified \in BOOLEAN :
            stripe_webhook(type, id, verified)

SpecAll == InitAll /\ [][NextAll]_vars

(***************************************************************************)
(* SpecAccounts: the life cycle of an account (registration, activation,   *)
(* a session, the password), the daily task and the passing of days, from  *)
(* the deployment of SpecAll with the gateway configured. register_user    *)
(* takes one step for its SELECTs and one for its INSERTs, on two          *)
(* connections; the other handlers take one step each.                     *)
(***************************************************************************)
InitAccounts == InitAll /\ stripe.api_key

\* as if the users table had no unique constraint on email
UniqueEmail_Missing(tbl, email) == TRUE

\* models/accounts.py: users.email is unique
UniqueEmail(tbl, email) == ~ \E u \in DOMAIN tbl : tbl[u].email = email

\* register_user on connection c, lines 49-65: the user of that email and the
\* default group are selected
RegisterBegin(c, email, password) ==
    /\ ~Busy(c)
    /\ UNCHANGED <<shopTables, paymentTables, identity>>
    /\ IF UserByEmail(email) # {}
       THEN Finish(c, Response("register_user", 0, email, 409))
       ELSE IF USER \notin userGroups
       THEN Finish(c, Response("register_user", 0, email, 500))
       ELSE /\ inflight' = [inflight EXCEPT ![c] =
                    [op |-> "register_user", pc |-> "insert", user |-> 0, movie |-> 0,
                     cart |-> 0, snap |-> {}, wrote |-> FALSE,
                     email |-> email, password |-> password]]
            /\ UNCHANGED last

\* lines 67-88: the user is flushed and committed with its activation token,
\* or the INSERT raises IntegrityError, a SQLAlchemyError: rollback and 500
RegisterCommit(c) ==
    /\ inflight[c].pc = "insert"
    /\ UNCHANGED <<shopTables, paymentTables, userGroups, passwordResetTokens,
                   refreshTokens, now>>
    /\ IF ~UniqueEmail(users, inflight[c].email)
       THEN /\ Finish(c, Response("register_user", 0, inflight[c].email, 500))
            /\ UNCHANGED <<users, activationTokens>>
       ELSE LET uid == Cardinality(DOMAIN users) + 1
            IN  /\ users' = [u \in DOMAIN users \cup {uid} |->
                                IF u = uid
                                THEN [email |-> inflight[c].email,
                                      password |-> hash_password(inflight[c].password),
                                      is_active |-> FALSE, group |-> USER]
                                ELSE users[u]]
                /\ activationTokens' = activationTokens \cup
                        {[user_id |-> uid,
                          token |-> generate_secure_token(uid, activationTokens),
                          expires_at |-> now + TokenDays]}
                /\ Finish(c, Response("register_user", uid, inflight[c].email, 201))

NextAccounts ==
    \/ \E c \in Clients, email \in Emails : RegisterBegin(c, email, SeedPassword)
    \/ \E c \in Clients : RegisterCommit(c)
    \/ \E email \in Emails, token \in TokenArgs(activationTokens) \cup Replayed :
            activate_account(email, token)
    \/ \E email \in Emails : resend_activation(email)
    \/ FirstSession /\ \E email \in Emails, password \in Passwords :
            login_user(email, password)
    \/ \E token \in TokenArgs(refreshTokens) : logout_user(token)
    \/ \E tok \in AccessTokens, old \in Passwords, new \in Passwords :
            change_password(tok, old, new)
    \/ \E email \in Emails : request_password_reset_token(email)
    \/ \E email \in Emails, token \in TokenArgs(passwordResetTokens) :
            reset_password(email, token, SeedPassword)
    \/ \E token \in TokenArgs(refreshTokens) : refresh_access_token(token)
    \/ delete_expired_token_task
    \/ Tick

SpecAccounts == InitAccounts /\ [][NextAccounts]_vars

(***************************************************************************)
(* SpecReset: a user registers and is activated; the administrator and the *)
(* user ask for password reset tokens and present tokens, stored ones and  *)
(* ones issued earlier; days pass and the daily task runs. Requests are    *)
(* served one at a time.                                                   *)
(***************************************************************************)
\* the first token that each user was issued: stored, replaced or used up
EarlierTokens == {generate_secure_token(u, {}) : u \in DOMAIN users}

NextReset ==
    \/ \E email \in Emails : register_user(email, SeedPassword)
    \/ \E email \in Emails, token \in TokenArgs(activationTokens) :
            activate_account(email, token)
    \/ \E email \in Emails : request_password_reset_token(email)
    \/ \E email \in Emails, token \in TokenArgs(passwordResetTokens) \cup EarlierTokens :
            reset_password(email, token, SeedPassword)
    \/ delete_expired_token_task
    \/ Tick

SpecReset == InitAccounts /\ [][NextReset]_vars

(***************************************************************************)
(* SpecSessions: two active users log in and out, refresh their access     *)
(* tokens, and the daily task deletes the refresh tokens that expired.     *)
(***************************************************************************)
NextSessions ==
    \/ \E email \in Emails, password \in Passwords : login_user(email, password)
    \/ \E token \in TokenArgs(refreshTokens) \cup Replayed : logout_user(token)
    \/ \E token \in TokenArgs(refreshTokens) \cup Replayed : refresh_access_token(token)
    \/ delete_expired_token_task
    \/ Tick

SpecSessions == Init /\ [][NextSessions]_vars

(***************************************************************************)
(* routes/movies.py: create_movie on connection c, one step for its SELECT *)
(* and one for its INSERT and commit. The certification, genres, stars and *)
(* directors that the request names are stored already.                    *)
(***************************************************************************)
\* the fields of MovieCreateSchema that the model keeps
MovieCreateSchema(name, year, time, price) ==
    [name |-> name, year |-> year, time |-> time, price |-> price]

\* existing_stmt: the stored movies of that name and runtime
ExistingMovie(movie_data) ==
    {m \in DOMAIN movies : movies[m].name = movie_data.name /\ movies[m].time = movie_data.time}

\* as if the movies table had no unique constraint
UniqueNameYearTime_Missing(tbl, movie_data) == TRUE

\* models/movies.py: UniqueConstraint unique_name_year_time
UniqueNameYearTime(tbl, movie_data) ==
    ~ \E m \in DOMAIN tbl : /\ tbl[m].name = movie_data.name
                            /\ tbl[m].year = movie_data.year
                            /\ tbl[m].time = movie_data.time

\* lines 107-125: 409 when a movie of that name and runtime is stored
CreateMovieBegin(c, movie_data) ==
    /\ ~Busy(c)
    /\ UNCHANGED <<shopTables, paymentTables, identity>>
    /\ IF ExistingMovie(movie_data) # {}
       THEN Finish(c, Response("create_movie", 0, movie_data, 409))
       ELSE /\ inflight' = [inflight EXCEPT ![c] =
                    [op |-> "create_movie", pc |-> "insert_movie", user |-> 0, movie |-> 0,
                     cart |-> 0, snap |-> {}, wrote |-> FALSE, data |-> movie_data]]
            /\ UNCHANGED last

\* lines 127-200: the movie is added and committed, or the INSERT raises
\* IntegrityError: rollback and 400
CreateMovieCommit(c) ==
    /\ inflight[c].pc = "insert_movie"
    /\ UNCHANGED <<identity, paymentTables, carts, cartItems, orders, orderItems,
                   catalogAtOrder>>
    /\ IF ~UniqueNameYearTime(movies, inflight[c].data)
       THEN /\ Finish(c, Response("create_movie", 0, inflight[c].data, 400))
            /\ UNCHANGED movies
       ELSE LET id == Cardinality(DOMAIN movies) + 1
            IN  /\ Cardinality(DOMAIN movies) < MaxMovies
                /\ movies' = [m \in DOMAIN movies \cup {id} |->
                                 IF m = id THEN inflight[c].data ELSE movies[m]]
                /\ Finish(c, Response("create_movie", 0, inflight[c].data, 201))

(***************************************************************************)
(* SpecMovies: the catalog is filled through create_movie, from an empty   *)
(* movies table, by requests on two connections.                           *)
(***************************************************************************)
InitMovies ==
    /\ users = [u \in UserIds |->
                    [email |-> SeedEmail(u), password |-> hash_password(SeedPassword),
                     is_active |-> TRUE, group |-> USER]]
    /\ userGroups = {USER}
    /\ activationTokens = {}
    /\ passwordResetTokens = {}
    /\ refreshTokens = {}
    /\ now = 0
    /\ payments = <<>>
    /\ paymentItems = {}
    /\ stripe = [api_key |-> TRUE, intents |-> 0]
    /\ movies = <<>>
    /\ carts = {}
    /\ cartItems = {}
    /\ orders = <<>>
    /\ orderItems = {}
    /\ catalogAtOrder = <<>>
    /\ inflight = [c \in Clients |-> Idle]
    /\ last = Response("none", 0, 0, 0)

NextMovies ==
    \/ \E c \in Clients, name \in MovieNames, year \in MovieYears, time \in MovieTimes :
            CreateMovieBegin(c, MovieCreateSchema(name, year, time, InitialPrice(1)))
    \/ \E c \in Clients : CreateMovieCommit(c)

SpecMovies == InitMovies /\ [][NextMovies]_vars

(***************************************************************************)
(* SpecRoles: an administrator and a user; the three groups are stored.    *)
(* Administrators move users between groups, and every user calls routes   *)
(* that the two role guards protect.                                       *)
(***************************************************************************)
InitRoles ==
    /\ users = [u \in UserIds |->
                    [email |-> SeedEmail(u), password |-> hash_password(SeedPassword),
                     is_active |-> TRUE, group |-> IF u = Min(UserIds) THEN ADMIN ELSE USER]]
    /\ userGroups = UserGroupEnum
    /\ activationTokens = {}
    /\ passwordResetTokens = {}
    /\ refreshTokens = {}
    /\ now = 0
    /\ payments = <<>>
    /\ paymentItems = {}
    /\ stripe = [api_key |-> TRUE, intents |-> 0]
    /\ movies = [m \in MovieIds |->
                    [name |-> "film", year |-> 2000 + m, time |-> 120, price |-> InitialPrice(m)]]
    /\ carts = {}
    /\ cartItems = {}
    /\ orders = <<>>
    /\ orderItems = {}
    /\ catalogAtOrder = <<>>
    /\ inflight = [c \in Clients |-> Idle]
    /\ last = Response("none", 0, 0, 0)

NextRoles ==
    \/ \E tok \in Tokens, email \in Emails, group \in UserGroupEnum :
            change_user_group(tok, email, group)
    \/ \E tok \in Tokens : admin_required(tok)
    \/ \E tok \in Tokens : moderator_required(tok)

SpecRoles == InitRoles /\ [][NextRoles]_vars

(***************************************************************************)
(* SpecPay: the customer fills the cart and places, pays and cancels       *)
(* orders; any caller asks for a payment of an order; the gateway delivers *)
(* events. The gateway's key is configured or not (settings). Requests are *)
(* served one at a time.                                                   *)
(***************************************************************************)
InitPay ==
    /\ users = [u \in UserIds |->
                    [email |-> SeedEmail(u), password |-> hash_password(SeedPassword),
                     is_active |-> TRUE, group |-> USER]]
    /\ userGroups = {USER}
    /\ activationTokens = {}
    /\ passwordResetTokens = {}
    /\ refreshTokens = {}
    /\ now = 0
    /\ payments = <<>>
    /\ paymentItems = {}
    /\ stripe \in {[api_key |-> k, intents |-> 0] : k \in BOOLEAN}
    /\ movies = [m \in MovieIds |->
                    [name |-> "film", year |-> 2000 + m, time |-> 120, price |-> InitialPrice(m)]]
    /\ carts = {}
    /\ cartItems = {}
    /\ orders = <<>>
    /\ orderItems = {}
    /\ catalogAtOrder = <<>>
    /\ inflight = [c \in Clients |-> Idle]
    /\ last = Response("none", 0, 0, 0)

\* the ids of the intents the gateway issued and one it did not issue
IntentArgs == 1..(stripe.intents + 1)

NextPay ==
    \/ \E m \in MovieIds : add_cart_item(Customer, m)
    \/ create_order(Customer)
    \/ \E oid \in 1..Len(orders) : pay_order(Customer, oid)
    \/ \E oid \in 1..Len(orders) : cancel_order(Customer, oid)
    \/ \E tok \in Tokens : \E oid \in OrderArgs(tok), outcome \in GatewayOutcomes :
            create_payments(tok, oid, outcome)
    \/ \E type \in EventTypes, id \in IntentArgs, verified \in BOOLEAN :
            stripe_webhook(type, id, verified)

SpecPay == InitPay /\ [][NextPay]_vars

(***************************************************************************)
(* SpecPayConc: create_payments on connection c takes one step up to the   *)
(* intent that the gateway returns and one for the INSERT and commit of    *)
(* the payment; the gateway's events are served in between. The customer   *)
(* fills the cart and places orders as in SpecPay.                         *)
(***************************************************************************)
\* the payments that requests in flight are about to insert
InsertingPayment == {c \in Clients : inflight[c].pc = "insert_payment"}

\* as if the payment were stored before the gateway is called
CreatePaymentBegin_Storing(c, tok, oid, outcome) ==
    /\ ~Busy(c)
    /\ UNCHANGED <<shopTables, identity, paymentItems>>
    /\ IF CreatePaymentCheck(tok, oid, outcome) # 201
       THEN /\ Finish(c, Response("create_payments", tok, PaymentRequest(oid, outcome),
                                  CreatePaymentCheck(tok, oid, outcome)))
            /\ UNCHANGED <<payments, stripe>>
       ELSE /\ Len(payments) + Cardinality(InsertingPayment) < MaxPayments
            /\ stripe' = [stripe EXCEPT !.intents = stripe.intents + 1]
            /\ payments' = Append(payments,
                    [user_id |-> tok, order_id |-> oid,
                     amount |-> SumPrices({i \in orderItems : i.order_id = oid}),
                     external_payment_id |-> stripe.intents + 1,
                     status |-> StatusEnum.CANCELED])
            /\ inflight' = [inflight EXCEPT ![c] =
                    [op |-> "create_payments", pc |-> "insert_payment", user |-> tok,
                     movie |-> 0, cart |-> 0, snap |-> {}, wrote |-> FALSE,
                     order |-> oid, intent |-> stripe.intents + 1]]
            /\ UNCHANGED last

\* lines 47-104: the checks, and the intent that stripe.PaymentIntent.create
\* returns
CreatePaymentBegin(c, tok, oid, outcome) ==
    /\ ~Busy(c)
    /\ UNCHANGED <<shopTables, identity, payments, paymentItems>>
    /\ IF CreatePaymentCheck(tok, oid, outcome) # 201
       THEN /\ Finish(c, Response("create_payments", tok, PaymentRequest(oid, outcome),
                                  CreatePaymentCheck(tok, oid, outcome)))
            /\ UNCHANGED stripe
       ELSE /\ Len(payments) + Cardinality(InsertingPayment) < MaxPayments
            /\ stripe' = [stripe EXCEPT !.intents = stripe.intents + 1]
            /\ inflight' = [inflight EXCEPT ![c] =
                    [op |-> "create_payments", pc |-> "insert_payment", user |-> tok,
                     movie |-> 0, cart |-> 0, snap |-> {}, wrote |-> FALSE,
                     order |-> oid, intent |-> stripe.intents + 1]]
            /\ UNCHANGED last

\* lines 106-123: the payment and its items are added and committed
CreatePaymentCommit(c) ==
    /\ inflight[c].pc = "insert_payment"
    /\ UNCHANGED <<shopTables, identity, stripe>>
    /\ LET oid == inflight[c].order
           items == {i \in orderItems : i.order_id = oid}
           pid == Len(payments) + 1
       IN  /\ payments' = Append(payments,
                    [user_id |-> inflight[c].user, order_id |-> oid,
                     amount |-> SumPrices(items),
                     external_payment_id |-> inflight[c].intent,
                     status |-> StatusEnum.CANCELED])
           /\ paymentItems' = paymentItems \cup
                    {[payment_id |-> pid, order_item_id |-> i.id,
                      price_at_payment |-> i.price_at_order] : i \in items}
           /\ Finish(c, Response("create_payments", inflight[c].user,
                                 PaymentRequest(oid, "intent"), 201))

NextPayConc ==
    \/ \E m \in MovieIds : add_cart_item(Customer, m)
    \/ create_order(Customer)
    \/ \E c \in Clients, tok \in Tokens :
          \E oid \in OrderArgs(tok), outcome \in GatewayOutcomes :
              CreatePaymentBegin(c, tok, oid, outcome)
    \/ \E c \in Clients : CreatePaymentCommit(c)
    \/ \E type \in EventTypes, id \in IntentArgs, verified \in BOOLEAN :
            stripe_webhook(type, id, verified)

SpecPayConc == InitPay /\ [][NextPayConc]_vars


(***************************************************************************)
(* Properties of the order workflow.                                       *)
(***************************************************************************)
OrderItemsOf(oid) == {i \in orderItems : i.order_id = oid}

RECURSIVE SumPriceAtOrder(_)
SumPriceAtOrder(items) ==
    IF items = {} THEN 0
    ELSE LET i == First(items) IN i.price_at_order + SumPriceAtOrder(items \ {i})

\* the caller's cart holds the movie
InCartOf(u, m) ==
    \E c \in CartRows(u) : \E i \in ItemsOf(cartItems, c.id) : i.movie_id = m

\* C1: once an order is paid or canceled its status never changes again.
C1_TerminalStatuses ==
    [][\A o \in DOMAIN orders :
          orders[o].status \in {PAID, CANCELED} => orders'[o].status = orders[o].status]_vars

\* C2: pay_order on a paid order and cancel_order on a paid or canceled order
\* answer 400 and leave every order as it was.
C2_Step ==
    LET r == last' IN
    /\ (/\ r.op = "pay_order"
        /\ Authenticated(r.user)
        /\ OrderExists(r.arg)
        /\ orders[r.arg].user_id = r.user
        /\ orders[r.arg].status = PAID) => (r.code = 400 /\ orders' = orders)
    /\ (/\ r.op = "cancel_order"
        /\ Authenticated(r.user)
        /\ OrderExists(r.arg)
        /\ orders[r.arg].user_id = r.user
        /\ orders[r.arg].status \in {PAID, CANCELED}) => (r.code = 400 /\ orders' = orders)

C2_TerminalRejected == [][C2_Step]_vars

\* a paid order whose cancellation was refused (scenario C)
C2_Witness ==
    /\ last.op = "cancel_order"
    /\ last.code = 400
    /\ OrderExists(last.arg)
    /\ orders[last.arg].status = PAID

\* C3: no user has two orders, each pending or paid, that contain the same movie.
C3_NoDoubleOrder ==
    \A i, j \in orderItems :
        (/\ i.order_id # j.order_id
         /\ i.movie_id = j.movie_id
         /\ orders[i.order_id].user_id = orders[j.order_id].user_id)
        => ~(/\ orders[i.order_id].status \in {PENDING, PAID}
             /\ orders[j.order_id].status \in {PENDING, PAID})

\* C4: an order's total_amount is the sum of its items' price_at_order, and each
\* price_at_order is the catalog price of the movie when the order was created,
\* whatever the catalog says now.
C4_PriceSnapshot ==
    \A o \in DOMAIN orders :
        /\ orders[o].total_amount = SumPriceAtOrder(OrderItemsOf(o))
        /\ \A i \in OrderItemsOf(o) : i.price_at_order = catalogAtOrder[o][i.movie_id]

\* an order item whose movie has changed its price since
C4_Witness ==
    \E i \in orderItems : movies[i.movie_id].price # i.price_at_order

\* C5: a successful create_order adds one pending order of the caller with one
\* item per cart item, and empties the caller's cart without deleting the cart.
C5_Step ==
    LET r == last'
        cart == First(CartRows(r.user))
        before == ItemsOf(cartItems, cart.id)
        added == orderItems' \ orderItems
    IN  (r.op = "create_order" /\ r.code = 201) =>
            /\ Len(orders') = Len(orders) + 1
            /\ SubSeq(orders', 1, Len(orders)) = orders
            /\ r.arg = Len(orders')
            /\ orders'[r.arg].status = PENDING
            /\ orders'[r.arg].user_id = r.user
            /\ orderItems \subseteq orderItems'
            /\ \A i \in added : i.order_id = r.arg
            /\ Cardinality(added) = Cardinality(before)
            /\ {i.movie_id : i \in added} = {i.movie_id : i \in before}
            /\ before # {}
            /\ carts' = carts
            /\ ItemsOf(cartItems', cart.id) = {}
            /\ cartItems' = cartItems \ before

C5_CartBecomesOrder == [][C5_Step]_vars

\* an order of two items was just created
C5_Witness ==
    /\ last.op = "create_order"
    /\ last.code = 201
    /\ Cardinality(OrderItemsOf(last.arg)) = 2
    /\ CartRows(last.user) # {}

\* the caller's cart holds a movie that one of the caller's orders of that status holds
CartMovieInOrder(u, st) ==
    \E c \in CartRows(u) : \E i \in ItemsOf(cartItems, c.id) :
        InOrderWithStatus(u, i.movie_id, st)

CartMissingOrEmpty(u) ==
    \A c \in CartRows(u) : ItemsOf(cartItems, c.id) = {}

\* C6: create_order answers 404 without a cart or with an empty cart and 400
\* when a movie of the cart is in a paid or pending order of the caller; a
\* request in one of these cases never reaches the commit, and a refused
\* request leaves orders, order items and cart items as they were.
C6_Step ==
    /\ \A c \in Clients :
          (~Busy(c) /\ inflight'[c].op = "create_order") =>
              /\ ~CartMissingOrEmpty(inflight'[c].user)
              /\ ~CartMovieInOrder(inflight'[c].user, PAID)
              /\ ~CartMovieInOrder(inflight'[c].user, PENDING)
    /\ (last' # last /\ inflight' = inflight /\ last'.op = "create_order") =>
          /\ last'.code \in {404, 400}
          /\ CartMissingOrEmpty(last'.user) => last'.code = 404
          /\ ~CartMissingOrEmpty(last'.user) =>
                (last'.code = 400 /\ (\/ CartMovieInOrder(last'.user, PAID)
                                      \/ CartMovieInOrder(last'.user, PENDING)))
          /\ UNCHANGED <<carts, cartItems, orders, orderItems>>

C6_RefusedOrderWritesNothing == [][C6_Step]_vars

\* create_order was refused for a movie of a paid order while the cart is not empty
C6_Witness ==
    /\ last.op = "create_order"
    /\ last.code = 400
    /\ CartMovieInOrder(last.user, PAID)

\* C7: pay_order and cancel_order on an order that is missing or belongs to
\* another user answer 404 and change nothing; only a request of its owner
\* changes an order's status.
C7_Step ==
    LET r == last' IN
    /\ (/\ r.op \in {"pay_order", "cancel_order"}
        /\ Authenticated(r.user)
        /\ ~(OrderExists(r.arg) /\ orders[r.arg].user_id = r.user))
          => (r.code = 404 /\ orders' = orders)
    /\ \A o \in DOMAIN orders :
          orders'[o].status # orders[o].status =>
              /\ r.op \in {"pay_order", "cancel_order"}
              /\ r.arg = o
              /\ r.user = orders[o].user_id
              /\ r.code = 200

C7_OwnerOnly == [][C7_Step]_vars

\* a user asked to pay the pending order of another user
C7_Witness ==
    /\ last.op = "pay_order"
    /\ last.code = 404
    /\ OrderExists(last.arg)
    /\ orders[last.arg].user_id # last.user
    /\ orders[last.arg].status = PENDING

\* C8: every user has at most one cart row and no cart holds a movie twice,
\* however the requests interleave; an add_cart_item that finds the movie in
\* the cart answers 409, and the cart stays as it was.
C8_Inv ==
    /\ \A u \in DOMAIN users : Cardinality(CartRows(u)) <= 1
    /\ \A i, j \in cartItems :
          (i.cart_id = j.cart_id /\ i.movie_id = j.movie_id) => i.id = j.id

C8_Step ==
    \A c \in Clients :
        LET q == inflight[c]
            held == \E i \in ItemsOf(cartItems, q.cart) : i.movie_id = q.movie
        IN  /\ (q.pc = "checks" /\ inflight'[c] # q /\ held) =>
                  /\ last' = Response("add_cart_item", q.user, q.movie, 409)
                  /\ UNCHANGED <<carts, cartItems>>
            /\ (q.pc = "item_commit" /\ inflight'[c] # q /\ held) =>
                  /\ last'.code # 201
                  /\ UNCHANGED <<carts, cartItems>>
            /\ (q.op = "add_cart_item" /\ inflight'[c] = Idle /\ last'.code = 409) =>
                  (held /\ UNCHANGED <<carts, cartItems>>)

C8_OneCartNoDuplicates == []C8_Inv /\ [][C8_Step]_vars

\* a second add of a movie was refused while the other connection was adding too
C8_Witness ==
    /\ last.op = "add_cart_item"
    /\ last.code = 409
    /\ InCartOf(last.user, last.arg)
    /\ \E c \in Clients : inflight[c].op = "add_cart_item"

\* the caller holds a paid order with the movie
PaidFor(u, m) == InOrderWithStatus(u, m, PAID)

\* C9: add_cart_item answers 404 for a movie that does not exist and 400 for a
\* movie of a paid order of the caller, adding no cart item; no step puts a
\* movie into the cart of a user who has paid for it.
C9_Step ==
    LET r == last' IN
    /\ (r.op = "add_cart_item" /\ Authenticated(r.user) /\ r.arg \notin DOMAIN movies)
          => (r.code = 404 /\ UNCHANGED <<carts, cartItems>>)
    /\ (/\ r.op = "add_cart_item"
        /\ Authenticated(r.user)
        /\ r.arg \in DOMAIN movies
        /\ PaidFor(r.user, r.arg)) => (r.code = 400 /\ cartItems' = cartItems)
    /\ \A u \in DOMAIN users, m \in DOMAIN movies :
          (PaidFor(u, m) /\ ~InCartOf(u, m)) => ~InCartOf(u, m)'

C9_NoRepeatPurchase == [][C9_Step]_vars

\* the add of a movie of a paid order was refused
C9_Witness ==
    /\ last.op = "add_cart_item"
    /\ last.code = 400
    /\ PaidFor(last.user, last.arg)

(***************************************************************************)
(* Properties of the error paths.                                          *)
(***************************************************************************)
\* NotFound, Conflict, BadRequest, Unauthorized, Forbidden
BusinessErrors == {404, 409, 400, 401, 403}

\* the stored state: users, tokens, carts, cart items, orders, payments
stored == <<users, activationTokens, passwordResetTokens, refreshTokens,
            carts, cartItems, orders, orderItems, payments, paymentItems>>

\* a step that serves a whole request
Immediate == inflight' = inflight /\ now' = now

\* a step that ends the request that connection c was in the middle of
Completed(c) == Busy(c) /\ inflight'[c].pc = "idle"

\* activate_account found the token of that value of the user, expired, and
\* deleted it
ExpiredActivationDeleted ==
    /\ last'.op = "activate_account"
    /\ \E t \in activationTokens :
          /\ t.user_id = last'.user
          /\ t.token = last'.arg.token
          /\ t.expires_at < now
          /\ activationTokens' = activationTokens \ {t}
    /\ UNCHANGED <<users, passwordResetTokens, refreshTokens,
                   carts, cartItems, orders, orderItems, payments, paymentItems>>

\* reset_password found the reset token of the active user, of another value
\* than the presented one or expired, and deleted it
RefusedResetDeleted ==
    /\ last'.op = "reset_password"
    /\ \E t \in passwordResetTokens :
          /\ t.user_id = last'.user
          /\ users[t.user_id].is_active
          /\ t.token # last'.arg \/ t.expires_at < now
          /\ passwordResetTokens' = passwordResetTokens \ {t}
    /\ UNCHANGED <<users, activationTokens, refreshTokens,
                   carts, cartItems, orders, orderItems, payments, paymentItems>>

\* the add_cart_item request of connection c created the caller's cart, which
\* is stored, and is refused by one of the checks that follow
LazyCartKept(c) ==
    /\ inflight[c].op = "add_cart_item"
    /\ last'.code \in {409, 400}
    /\ \E row \in carts : row.id = inflight[c].cart /\ row.user_id = inflight[c].user

\* C10 as stated: a request that is answered with a business-rule error has
\* written nothing.
C10_ErrorsWriteNothing ==
    [][/\ (Immediate /\ last'.code \in BusinessErrors) => UNCHANGED stored
       /\ \A c \in Clients :
             (Completed(c) /\ last'.code \in BusinessErrors) =>
                 (UNCHANGED stored /\ ~inflight[c].wrote)]_vars

\* C10: a request that is answered with a business-rule error has written
\* nothing, with three exceptions: activate_account deletes the matching
\* activation token that it finds expired, reset_password deletes the user's
\* reset token when the presented token differs from it or when it is
\* expired, and add_cart_item has stored the cart it created for the caller
\* when one of its later checks refuses the movie.
C10_Step ==
    /\ (Immediate /\ last'.code \in BusinessErrors) =>
          \/ UNCHANGED stored
          \/ ExpiredActivationDeleted
          \/ RefusedResetDeleted
    /\ \A c \in Clients :
          (Completed(c) /\ last'.code \in BusinessErrors) =>
              /\ UNCHANGED stored
              /\ inflight[c].wrote => LazyCartKept(c)

C10_ErrorsWriteNothingButTokens == [][C10_Step]_vars

\* activate_account refused an inactive user's expired token and deleted it
C10_Witness ==
    /\ last.op = "activate_account"
    /\ last.code = 400
    /\ last.user \in DOMAIN users
    /\ ~users[last.user].is_active
    /\ TokensOf(activationTokens, last.user) = {}

(***************************************************************************)
(* Properties of the payments.                                             *)
(***************************************************************************)
\* the order of that id is stored and is the caller's
OwnOrder(tok, oid) == OrderExists(oid) /\ orders[oid].user_id = tok

\* C11: create_payments checks in this order: an order that is missing or not
\* the caller's is answered 404; a paid order 400; a gateway key that is not
\* configured 503, whatever the gateway would answer and without an intent
\* being issued; the gateway's invalid-request error 400; any other gateway
\* error 502. A request that is not answered 201 stores no payment and no
\* payment item.
C11_Step ==
    last'.op = "create_payments" =>
        LET tok == last'.user
            oid == last'.arg.order_id
            gateway == last'.arg.gateway
            code == last'.code
        IN  /\ Authenticated(tok) =>
                  IF ~OwnOrder(tok, oid) THEN code = 404
                  ELSE IF orders[oid].status = PAID THEN code = 400
                  ELSE IF ~stripe.api_key THEN code = 503 /\ stripe' = stripe
                  ELSE IF gateway = "InvalidRequestError" THEN code = 400
                  ELSE IF gateway = "StripeError" THEN code = 502
                  ELSE code = 201
            /\ code # 201 => UNCHANGED <<payments, paymentItems>>

C11_PaymentChecksInOrder == [][C11_Step]_vars

\* a payment of the caller's paid order was asked for while the key is not
\* configured and the gateway would fail: the answer is the order's
C11_Witness ==
    /\ last.op = "create_payments"
    /\ last.code = 400
    /\ ~stripe.api_key
    /\ last.arg.gateway = "StripeError"
    /\ OwnOrder(last.user, last.arg.order_id)
    /\ orders[last.arg.order_id].status = PAID

\* C12: a create_payments answered 201 stores one new payment of the caller
\* for that order, its amount the sum of the order items' price_at_order, its
\* external_payment_id the id of the intent the gateway returned, and one
\* payment item per order item with that item's price_at_order.
C12_Step ==
    (last'.op = "create_payments" /\ last'.code = 201) =>
        LET tok == last'.user
            oid == last'.arg.order_id
            pid == Len(payments) + 1
            new == paymentItems' \ paymentItems
        IN  /\ Len(payments') = pid
            /\ SubSeq(payments', 1, Len(payments)) = payments
            /\ payments'[pid].user_id = tok
            /\ payments'[pid].order_id = oid
            /\ payments'[pid].amount = SumPriceAtOrder(OrderItemsOf(oid))
            /\ stripe'.intents = stripe.intents + 1
            /\ payments'[pid].external_payment_id = stripe'.intents
            /\ paymentItems \subseteq paymentItems'
            /\ Cardinality(new) = Cardinality(OrderItemsOf(oid))
            /\ \A i \in OrderItemsOf(oid) :
                  [payment_id |-> pid, order_item_id |-> i.id,
                   price_at_payment |-> i.price_at_order] \in new

C12_PaymentSnapshotsOrder == [][C12_Step]_vars

\* a second payment was stored, for an order of two items
C12_Witness ==
    /\ last.op = "create_payments"
    /\ last.code = 201
    /\ Len(payments) = 2
    /\ Cardinality(OrderItemsOf(last.arg.order_id)) = 2
    /\ Cardinality({i \in paymentItems : i.payment_id = 2}) = 2

\* the payments that an event's external id matches
Matching(tbl, external_id) ==
    {p \in DOMAIN tbl : tbl[p].external_payment_id = external_id}

\* the payment status that the specification gives for an event type
SpecifiedFor(type) ==
    IF type = "payment_intent.succeeded" THEN "successful"
    ELSE IF type = "payment_intent.payment_failed" THEN "canceled"
    ELSE IF type = "charge.refunded" THEN "refunded"
    ELSE "unspecified"

\* C13: a verified event (one that is not answered 400) is answered 200; if
\* its id matches a stored payment, payment_intent.succeeded leaves that
\* payment successful, payment_intent.payment_failed canceled and
\* charge.refunded refunded, and every other payment is as before; if its id
\* matches no payment, the payments are as before.
C13_Step ==
    (last'.op = "stripe_webhook" /\ last'.code # 400) =>
        LET ev == last'.arg
            matched == Matching(payments, ev.id)
        IN  /\ last'.code = 200
            /\ DOMAIN payments' = DOMAIN payments
            /\ \A p \in DOMAIN payments :
                  IF p \in matched /\ SpecifiedFor(ev.type) # "unspecified"
                  THEN payments'[p].status = SpecifiedFor(ev.type)
                  ELSE payments'[p] = payments[p]
            /\ UNCHANGED paymentItems

C13_WebhookSetsStatus == [][C13_Step]_vars

\* C14: when the event that was processed last is delivered again (the same
\* type and the same external id), no payment changes.
C14_Step ==
    (/\ last.op = "stripe_webhook"
     /\ last.code # 400
     /\ last'.op = "stripe_webhook"
     /\ last'.code # 400
     /\ last'.arg = last.arg) => payments' = payments

C14_WebhookIdempotent == [][C14_Step]_vars

\* an event of a type that the handler acts on was processed for the second
\* of two stored payments
C14_Witness ==
    /\ last.op = "stripe_webhook"
    /\ last.code = 200
    /\ last.arg.type = "payment_intent.payment_failed"
    /\ Len(payments) = 2
    /\ Matching(payments, last.arg.id) = {2}
    /\ payments[2].status = StatusEnum.CANCELED

(***************************************************************************)
(* Properties of the accounts.                                             *)
(***************************************************************************)
\* no two users share an email
UniqueEmails ==
    \A u, v \in DOMAIN users : u # v => users[u].email # users[v].email

\* the step stored one new, inactive user of that email and one activation
\* token, bound to it, and nothing else of the users and tokens changed
Registered(email) ==
    \E uid \in DOMAIN users' \ DOMAIN users :
        /\ DOMAIN users' = DOMAIN users \cup {uid}
        /\ \A u \in DOMAIN users : users'[u] = users[u]
        /\ users'[uid].email = email
        /\ ~users'[uid].is_active
        /\ activationTokens \subseteq activationTokens'
        /\ Cardinality(activationTokens' \ activationTokens) = 1
        /\ \A t \in activationTokens' \ activationTokens : t.user_id = uid
        /\ Cardinality(TokensOf(activationTokens', uid)) = 1

\* C15: a register_user request whose email is taken when it arrives is
\* answered 409; a request that is answered 201 has stored one new inactive
\* user and one activation token bound to it; a request that is not
\* answered 201 has stored neither; and no two users ever share an email.
C15_Step ==
    /\ (Immediate /\ last'.op = "register_user") =>
          /\ UserByEmail(last'.arg) # {}
          /\ last'.code = 409
          /\ UNCHANGED <<users, activationTokens>>
    /\ \A c \in Clients :
          /\ (~Busy(c) /\ Busy(c)') =>
                (inflight'[c].op = "register_user" => UserByEmail(inflight'[c].email) = {})
          /\ (Completed(c) /\ inflight[c].op = "register_user") =>
                IF last'.code = 201
                THEN Registered(inflight[c].email)
                ELSE UNCHANGED <<users, activationTokens>>
    /\ UniqueEmails'

C15_RegisterOnce == [][C15_Step]_vars

\* a request for an email that another request registered in between was
\* refused, and the email has one user
C15_Witness ==
    /\ last.op = "register_user"
    /\ last.code = 500
    /\ Cardinality(UserByEmail(last.arg)) = 1
    /\ Cardinality(DOMAIN users) = 2

\* the stored activation tokens of that value that belong to the user of
\* that email
MatchingActivation(req) ==
    {t \in activationTokens : t.token = req.token /\ users[t.user_id].email = req.email}

\* C16: activate_account with a matching token that has not expired answers
\* 200, marks the user active and deletes the token; with a matching token
\* that has expired it answers 400, deletes that token and leaves the user
\* inactive; with no matching token it answers 400 and changes nothing; and
\* a request that presents again the email and token of a request that was
\* answered 200 is answered 400.
C16_Step ==
    (Immediate /\ last'.op = "activate_account") =>
        LET req == last'.arg
            found == MatchingActivation(req)
        IN  /\ IF found = {}
               THEN last'.code = 400 /\ UNCHANGED <<users, activationTokens>>
               ELSE \A t \in found :
                      IF t.expires_at < now
                      THEN /\ last'.code = 400
                           /\ activationTokens' = activationTokens \ {t}
                           /\ users' = users
                           /\ ~users'[t.user_id].is_active
                      ELSE /\ last'.code = 200
                           /\ activationTokens' = activationTokens \ {t}
                           /\ users' = [users EXCEPT ![t.user_id].is_active = TRUE]
            /\ (last.op = "activate_account" /\ last.code = 200 /\ req = last.arg) =>
                  last'.code = 400

C16_ActivationTokenSingleUse == [][C16_Step]_vars

\* the email and token of a successful activation were presented again and
\* refused
C16_Witness ==
    /\ last.op = "activate_account"
    /\ last.code = 400
    /\ last.arg.token # BadToken
    /\ \E u \in UserByEmail(last.arg.email) :
          users[u].is_active /\ last.arg.token = generate_secure_token(u, {})

\* C17: resend_activation for an inactive user whose activation token has
\* expired or is gone answers 200 and leaves the user one activation token,
\* fresh and not expired; for an active user, and for a user who holds a
\* token that has not expired, it answers 400 and changes nothing; and
\* activate_account accepts the token of a resend_activation that was
\* answered 200, while that token has not expired: the user becomes active.
C17_Step ==
    /\ (Immediate /\ last'.op = "resend_activation") =>
          \A u \in UserByEmail(last'.arg) :
              LET held == TokensOf(activationTokens, u)
              IN  IF users[u].is_active \/ \E t \in held : t.expires_at >= now
                  THEN last'.code = 400 /\ UNCHANGED <<users, activationTokens>>
                  ELSE /\ last'.code = 200
                       /\ users' = users
                       /\ activationTokens' \ TokensOf(activationTokens', u) =
                              activationTokens \ held
                       /\ Cardinality(TokensOf(activationTokens', u)) = 1
                       /\ \A t \in TokensOf(activationTokens', u) :
                              t.expires_at >= now /\ t \notin held
    /\ (/\ last.op = "resend_activation"
        /\ last.code = 200
        /\ Immediate
        /\ last'.op = "activate_account"
        /\ last'.arg.email = last.arg
        /\ \E t \in TokensOf(activationTokens, last.user) :
              t.token = last'.arg.token /\ t.expires_at >= now) =>
          (last'.code = 200 /\ users'[last.user].is_active)

C18_Step ==
    /\ (Immediate /\ last'.op = "login_user") =>
          LET req == last'.arg
              known == UserByEmail(req.email)
          IN  IF known = {} \/ \A u \in known : users[u].password # hash_password(req.password)
              THEN last'.code = 401 /\ refreshTokens' = refreshTokens
              ELSE \A u \in known :
                     IF ~users[u].is_active
                     THEN last'.code = 403 /\ refreshTokens' = refreshTokens
                     ELSE /\ last'.code = 200
                          /\ refreshTokens \subseteq refreshTokens'
                          /\ Cardinality(refreshTokens' \ refreshTokens) = 1
                          /\ \A t \in refreshTokens' \ refreshTokens :
                                t.user_id = u /\ t.token = req.refresh_token
    /\ \A t \in refreshTokens' : users'[t.user_id].is_active

C18_LoginIssuesSession == [][C18_Step]_vars

\* the user who registered and was activated logged in; before, as an
\* inactive user, the login was refused
C18_Witness ==
    /\ last.op = "login_user"
    /\ last.code = 200
    /\ last.user # Customer
    /\ \E t \in refreshTokens : t.user_id = last.user /\ t.token = last.arg.refresh_token

\* the stored refresh tokens of that value
MatchingSession(token) == {t \in refreshTokens : t.token = token}

\* C19: logout_user answers 200 and deletes the stored refresh token of the
\* value it is given, and no other; it answers 400 and deletes nothing when
\* no stored token has that value; refresh_access_token answers 200 only for
\* a stored refresh token, and deletes none; and after a logout_user that
\* was answered 200, the same token is refused by refresh_access_token and
\* answered 400 by logout_user.
C19_Step ==
    /\ (now' = now /\ last'.op = "logout_user") =>
          IF MatchingSession(last'.arg) = {}
          THEN last'.code = 400 /\ refreshTokens' = refreshTokens
          ELSE /\ last'.code = 200
               /\ Cardinality(MatchingSession(last'.arg)) = 1
               /\ refreshTokens' = refreshTokens \ MatchingSession(last'.arg)
    /\ (now' = now /\ last'.op = "refresh_access_token") =>
          /\ refreshTokens' = refreshTokens
          /\ last'.code = 200 => MatchingSession(last'.arg) # {}
    /\ (/\ last.op = "logout_user"
        /\ last.code = 200
        /\ now' = now
        /\ last'.op \in {"refresh_access_token", "logout_user"}
        /\ last'.arg = last.arg) =>
          /\ last'.op = "refresh_access_token" => last'.code # 200
          /\ last'.op = "logout_user" => last'.code = 400

C20_NoEnumerationSignal ==
    last.op = "request_password_reset_token" =>
        \A email \in Emails : ResetRequestMessage(email) = last.arg.message

(***************************************************************************)
(* Properties of the password reset.                                       *)
(***************************************************************************)
\* C21: every user holds at most one password reset token; a
\* request_password_reset_token for the email of an active user deletes the
\* user's previous reset token and stores one new token for that user, of
\* another value than the previous one, leaving the tokens of the other
\* users alone; a request for an email that no user or an inactive user has
\* leaves the table as it is; and reset_password changes a password only
\* for the token that is stored for the user, so not for a replaced one.
C21_Step ==
    /\ \A u \in DOMAIN users' : Cardinality(TokensOf(passwordResetTokens', u)) <= 1
    /\ (Immediate /\ last'.op = "request_password_reset_token") =>
          LET known == UserByEmail(last'.arg.email)
          IN  IF known = {} \/ \E u \in known : ~users[u].is_active
              THEN passwordResetTokens' = passwordResetTokens
              ELSE \A u \in known :
                     /\ Cardinality(TokensOf(passwordResetTokens', u)) = 1
                     /\ \A new \in TokensOf(passwordResetTokens', u) :
                           /\ new.expires_at = now + TokenDays
                           /\ \A old \in passwordResetTokens : new.token # old.token
                     /\ passwordResetTokens' \ TokensOf(passwordResetTokens', u) =
                           passwordResetTokens \ TokensOf(passwordResetTokens, u)
    /\ (Immediate /\ last'.op = "reset_password" /\ users' # users) =>
          \E t \in passwordResetTokens : t.user_id = last'.user /\ t.token = last'.arg

C21_OneResetTokenPerUser == [][C21_Step]_vars

\* a second request replaced the reset token of an active user
C21_Witness ==
    /\ last.op = "request_password_reset_token"
    /\ \E u \in UserByEmail(last.arg.email) :
          /\ users[u].is_active
          /\ \E t \in TokensOf(passwordResetTokens, u) :
                t.token # generate_secure_token(u, {})

\* C22: reset_password for an active user who holds a reset token: when
\* the presented token is the stored one and has not expired, the answer is
\* 200, the password is overwritten and the token deleted; when it differs
\* from the stored one or the stored one has expired, the answer is 400, the
\* password is unchanged and the stored token deleted; when the user holds
\* no token (as after either of these), the answer is 400 and nothing
\* changes; and a password is overwritten in no other case.
C22_Step ==
    /\ (Immediate /\ last'.op = "reset_password" /\ last'.user # 0) =>
          LET held == TokensOf(passwordResetTokens, last'.user)
          IN  IF held = {}
              THEN /\ last'.code = 400
                   /\ UNCHANGED <<users, passwordResetTokens>>
              ELSE \A t \in held :
                     IF t.token = last'.arg /\ ~(t.expires_at < now)
                     THEN /\ last'.code = 200
                          /\ passwordResetTokens' = passwordResetTokens \ {t}
                          /\ \E password \in Passwords :
                                users' = [users EXCEPT ![last'.user].password =
                                                          hash_password(password)]
                     ELSE /\ last'.code = 400
                          /\ passwordResetTokens' = passwordResetTokens \ {t}
                          /\ users' = users
    /\ (Immediate /\ last'.op = "reset_password" /\ last'.user = 0) =>
          UNCHANGED <<users, passwordResetTokens>>

C22_ResetCompletes == [][C22_Step]_vars

(***************************************************************************)
(* Properties of the role guards.                                          *)
(***************************************************************************)
\* C23 as stated: admin_required answers 403 to every user whose stored
\* group is not admin, and moderator_required answers 403 to every user
\* whose stored group is not moderator.
C23_GuardsAdmitOwnGroupOnly ==
    [][/\ last'.op = "admin_required" /\ last'.user \in DOMAIN users =>
             (last'.code = 403 <=> users[last'.user].group # ADMIN)
       /\ last'.op = "moderator_required" /\ last'.user \in DOMAIN users =>
             (last'.code = 403 <=> users[last'.user].group # MODERATOR)]_vars

\* C23: admin_required answers 403 to every user whose stored group is not
\* admin and admits the others; moderator_required answers 403 to every
\* user whose stored group is neither moderator nor admin and admits the
\* others; the group is the one stored when the request is served, the one
\* that the last change_user_group answered 200 for that user has set.
C23_Step ==
    /\ last'.op = "admin_required" /\ last'.user \in DOMAIN users =>
          IF users[last'.user].group # ADMIN THEN last'.code = 403 ELSE last'.code = 200
    /\ last'.op = "moderator_required" /\ last'.user \in DOMAIN users =>
          IF users[last'.user].group \notin {MODERATOR, ADMIN}
          THEN last'.code = 403 ELSE last'.code = 200
    /\ last'.op \in {"admin_required", "moderator_required"} => users' = users
    /\ last'.op = "change_user_group" =>
          /\ last'.code # 200 => users' = users
          /\ last'.code = 200 =>
                /\ users[last'.user].group = ADMIN
                /\ \E u \in UserByEmail(last'.arg) :
                      \E group \in UserGroupEnum \ {users[u].group} :
                          users' = [users EXCEPT ![u].group = group]

C23_GuardsReadStoredGroup == [][C23_Step]_vars

\* the administrator of the start was moved to the group of users and is
\* then refused by admin_required
C23_Witness ==
    /\ last.op = "admin_required"
    /\ last.user = Min(UserIds)
    /\ last.code = 403
    /\ users[last.user].group = USER

(***************************************************************************)
(* Properties of the catalog.                                              *)
(***************************************************************************)
\* the stored movies that have the name, year and runtime of the request
SameTriple(tbl, movie_data) ==
    {m \in DOMAIN tbl : /\ tbl[m].name = movie_data.name
                        /\ tbl[m].year = movie_data.year
                        /\ tbl[m].time = movie_data.time}

\* C24: no two stored movies have the same name, year and runtime; a
\* create_movie request that finds a stored movie of its name and runtime,
\* of the same year or of another, is answered 409 and the movies table is
\* unchanged; a request is taken further only when no stored movie has its
\* name and runtime; and a request that is not answered 201 stores no movie.
C24_Step ==
    /\ \A a, b \in DOMAIN movies' :
          (/\ movies'[a].name = movies'[b].name
           /\ movies'[a].year = movies'[b].year
           /\ movies'[a].time = movies'[b].time) => a = b
    /\ (Immediate /\ last'.op = "create_movie") =>
          /\ last'.code = 409
          /\ movies' = movies
          /\ ExistingMovie(last'.arg) # {}
    /\ \A c \in Clients :
          /\ (~Busy(c) /\ inflight'[c].pc = "insert_movie") =>
                (ExistingMovie(inflight'[c].data) = {} /\ movies' = movies)
          /\ (Completed(c) /\ inflight[c].op = "create_movie") =>
                IF last'.code = 201
                THEN /\ SameTriple(movies, last'.arg) = {}
                     /\ Cardinality(DOMAIN movies') = Cardinality(DOMAIN movies) + 1
                     /\ \A m \in DOMAIN movies : movies'[m] = movies[m]
                     /\ SameTriple(movies', last'.arg) # {}
                ELSE movies' = movies

C24_MovieTripleUnique == [][C24_Step]_vars

\* a request for the name and runtime of a stored movie, with another year,
\* was answered 409
C24_Witness ==
    /\ last.op = "create_movie"
    /\ last.code = 409
    /\ ExistingMovie(last.arg) # {}
    /\ SameTriple(movies, last.arg) = {}

(***************************************************************************)
(* Properties of the cart and the payments across the workflow.            *)
(***************************************************************************)
\* an order of the user, of whatever status, holds the movie
InSomeOrder(u, m) == \E st \in {PENDING, PAID, CANCELED} : InOrderWithStatus(u, m, st)

\* C25: add_cart_item answers 400 and adds no cart item when an order of
\* the caller holds the movie, be the order pending, paid or canceled; an
\* order keeps its movies whatever happens to it; and no step puts a movie
\* of an order of a user into that user's cart.
C25_Step ==
    /\ (last'.op = "add_cart_item" /\ Authenticated(last'.user) /\
         InSomeOrder(last'.user, last'.arg)) =>
            (last'.code = 400 /\ cartItems' = cartItems)
    /\ \A u \in DOMAIN users, m \in DOMAIN movies :
          InSomeOrder(u, m) => (InSomeOrder(u, m)' /\ ~InCartOf(u, m)')

C25_OrderedMovieNeverInCart == [][C25_Step]_vars

\* the add of a movie was refused when the caller's only order of it is a
\* canceled one
C25_Witness ==
    /\ last.op = "add_cart_item"
    /\ last.code = 400
    /\ InOrderWithStatus(last.user, last.arg, CANCELED)
    /\ ~InOrderWithStatus(last.user, last.arg, PENDING)
    /\ ~InOrderWithStatus(last.user, last.arg, PAID)

\* C26: the payment that a create_payments answered 201 has stored is
\* successful or pending, and the status of a stored payment changes only
\* when a webhook event for its external id is processed.
C26_Step ==
    /\ (last'.op = "create_payments" /\ last'.code = 201) =>
          payments'[Len(payments')].status \in {PaymentStatusEnum.SUCCESSFUL, "pending"}
    /\ \A p \in DOMAIN payments :
          payments'[p].status # payments[p].status =>
              (last'.op = "stripe_webhook" /\
               last'.arg.id = payments[p].external_payment_id)

C26_InitialStatus == [][C26_Step]_vars

\* the stored payments of an order
PaymentsOf(oid) == {p \in DOMAIN payments : payments[p].order_id = oid}

\* C27: create_payments and stripe_webhook, whatever the event, leave the
\* orders and their items as they are: an order's status changes only in
\* pay_order and cancel_order, whether a payment is stored for it or not.
C27_Step ==
    /\ last'.op \in {"create_payments", "stripe_webhook"} =>
          UNCHANGED <<orders, orderItems>>
    /\ \A oid \in DOMAIN orders :
          orders'[oid].status # orders[oid].status =>
              (last'.op \in {"pay_order", "cancel_order"} /\ last'.arg = oid)

C27_PaymentsLeaveOrders == [][C27_Step]_vars

\* an order was paid through pay_order and no payment is stored for it,
\* while a payment is stored for another order, which is still pending
C27_Witness ==
    /\ last.op = "pay_order"
    /\ last.code = 200
    /\ orders[last.arg].status = PAID
    /\ PaymentsOf(last.arg) = {}
    /\ \E oid \in DOMAIN orders : orders[oid].status = PENDING /\ PaymentsOf(oid) # {}

\* C28: for the caller's own order, a configured key and a gateway that
\* returns an intent, create_payments is answered 201 unless the order is
\* paid, for a canceled order as for a pending one and whether the order has
\* payments already, and stores one more payment each time; and each payment
\* of an order that has several becomes successful when the
\* payment_intent.succeeded event for its external id is processed.
C28_Step ==
    /\ (/\ last'.op = "create_payments"
        /\ Authenticated(last'.user)
        /\ OwnOrder(last'.user, last'.arg.order_id)
        /\ stripe.api_key
        /\ last'.arg.gateway = "intent") =>
          IF orders[last'.arg.order_id].status = PAID
          THEN last'.code = 400 /\ payments' = payments
          ELSE last'.code = 201 /\ Len(payments') = Len(payments) + 1
    /\ (/\ last'.op = "stripe_webhook"
        /\ last'.code # 400
        /\ last'.arg.type = "payment_intent.succeeded") =>
          \A p \in Matching(payments, last'.arg.id) :
              Cardinality(PaymentsOf(payments[p].order_id)) > 1 =>
                  payments'[p].status = PaymentStatusEnum.SUCCESSFUL

C28_SeveralPaymentsPerOrder == [][C28_Step]_vars

\* C29: after a verified event of one of the three types that the handler
\* acts on, the payment of the event's external id has the status that the
\* event's type maps to, whatever its status was before.
C29_LastEventWins ==
    (/\ last.op = "stripe_webhook"
     /\ last.code # 400
     /\ SpecifiedFor(last.arg.type) # "unspecified") =>
        \A p \in Matching(payments, last.arg.id) :
            payments[p].status = SpecifiedFor(last.arg.type)

\* the requests that hold the intent of that id and have not yet committed
\* their payment
AwaitingCommit(external_id) ==
    {c \in InsertingPayment : inflight[c].intent = external_id}

\* C30: an event that is processed while a create_payments request holds
\* the intent of the event's id and has not committed its payment matches
\* no stored payment and changes none; the payment that the request then
\* commits has the status that create_payments gives every payment; and a
\* stored payment's status changes only when an event for its external id
\* is processed.
C30_Step ==
    /\ (Immediate /\ last'.op = "stripe_webhook" /\
         AwaitingCommit(last'.arg.id) # {}) =>
            (Matching(payments, last'.arg.id) = {} /\ payments' = payments)
    /\ \A c \in Clients :
          (Completed(c) /\ inflight[c].op = "create_payments") =>
              /\ Len(payments') = Len(payments) + 1
              /\ payments'[Len(payments')].external_payment_id = inflight[c].intent
              /\ payments'[Len(payments')].status = StatusEnum.CANCELED
    /\ \A p \in DOMAIN payments :
          payments'[p] # payments[p] =>
              /\ Immediate
              /\ last'.op = "stripe_webhook"
              /\ last'.arg.id = payments[p].external_payment_id

C30_EarlyEventDropped == [][C30_Step]_vars

\* a verified event of a type that the handler acts on was processed for an
\* intent whose payment is not yet committed, while another payment is stored
C30_Witness ==
    /\ last.op = "stripe_webhook"
    /\ last.code = 200
    /\ last.arg.type = "payment_intent.payment_failed"
    /\ AwaitingCommit(last.arg.id) # {}
    /\ Matching(payments, last.arg.id) = {}
    /\ Len(payments) = 1

====
